---- MODULE Spec2Model ----
(***************************************************************************)
(* A model of the GCE persistent-disk CSI driver: the node service         *)
(* (NodeStage/Unstage/Publish/Unpublish/Expand, serialized per volume by   *)
(* the volume lock registry) and the controller service (CreateVolume,     *)
(* DeleteVolume, ControllerPublish/Unpublish against the cloud disk API).   *)
(*                                                                         *)
(* Strings the code splits or joins (zones, names, volume identifiers) are *)
(* sequences of one-character strings, so that encoding and decoding are   *)
(* computed.  Byte counts are in units of 1/GiB of a GiB.                  *)
(***************************************************************************)
EXTENDS Integers, Sequences, FiniteSets, TLC

VARIABLES
    volumeLocks,   \* node: common.VolumeLocks, the set of volume IDs in use
    pc,            \* node: per task, "idle" or "running" (inside a handler)
    req,           \* node: per task, the request of the handler it is inside
    resp,          \* node: per task, the response of its latest call
    pathType,      \* node: per path, "absent", "dir" or "file"
    mounts,        \* node: per path, the mount on it (the mount table)
    nodePool       \* which callers the node has (the requests they send)

nodeVars == <<volumeLocks, pc, req, resp, pathType, mounts, nodePool>>

VARIABLES
    disks,         \* cloud: per zone and name, the disk there
    attached,      \* cloud: per instance, its attached disks (Instance.Disks)
    cpc,           \* controller: per task, "idle" or the cloud call it is at
    creq,          \* controller: per task, the request of its latest call
    cresp,         \* controller: per task, the response of its latest call
    clocal,        \* controller: per task, the handler's local variables
    hist,          \* history of each task's latest call (not program state)
    pool,          \* which callers the controller has (the requests they send)
    snapshots      \* cloud: the names of the snapshots there

ctrlVars == <<disks, attached, cpc, creq, cresp, clocal, hist, pool, snapshots>>

VARIABLES
    proxy,         \* mounter: the CSI proxy's disk and the FormatAndMount call on it
    blocking       \* mounter: FakeBlockingMounter, its channels and Mount calls

mounterVars == <<proxy, blocking>>
vars == <<nodeVars, ctrlVars, mounterVars>>

(***************************************************************************)
(* Bounds and scales of the model.                                         *)
(***************************************************************************)
\* The concurrent callers of the node service (the transport runs each call
\* on a task of its own).
Tasks == {"t1", "t2"}

\* Model units per GiB: a byte count b of the code is b / (2^30 / GiB).
GiB == 2

(***************************************************************************)
(* Volume identifiers.                                                     *)
(***************************************************************************)
Sep == "/"

\* zone/name
CombineVolumeId(zone, name) == zone \o <<Sep>> \o name

\* Decode: exactly one separator, else malformed.
SplitZoneNameId(id) ==
    LET seps == {i \in 1..Len(id) : id[i] = Sep} IN
    IF Cardinality(seps) # 1
    THEN [ok |-> FALSE, zone |-> <<>>, name |-> <<>>]
    ELSE LET i == CHOOSE j \in seps : TRUE IN
         [ok |-> TRUE, zone |-> SubSeq(id, 1, i - 1),
          name |-> SubSeq(id, i + 1, Len(id))]

VolumeIDToKey(id) == SplitZoneNameId(id)

EmptyID == <<>>
GoodID == CombineVolumeId(<<"z">>, <<"d">>)
BadID == <<"d">>
NodeVolumeIDs == {EmptyID, GoodID, BadID}

(***************************************************************************)
(* Capacity resolution.                                                    *)
(***************************************************************************)
MinimumVolumeSizeInBytes == 5 * GiB

NoRange == [present |-> FALSE, required |-> 0, limit |-> 0]
Range(r, l) == [present |-> TRUE, required |-> r, limit |-> l]

\* A resolution without the check of the limit against the minimum.
getRequestCapacityAnyLimit(capRange) ==
    IF ~capRange.present
    THEN [ok |-> TRUE, bytes |-> MinimumVolumeSizeInBytes]
    ELSE LET rBytes == capRange.required
             lBytes == capRange.limit
         IN IF lBytes > 0 /\ rBytes > 0 /\ lBytes < rBytes THEN [ok |-> FALSE, bytes |-> 0]
            ELSE [ok |-> TRUE,
                  bytes |-> IF rBytes < MinimumVolumeSizeInBytes
                            THEN MinimumVolumeSizeInBytes ELSE rBytes]

\* getRequestCapacity: [ok, bytes]
getRequestCapacity(capRange) ==
    IF ~capRange.present
    THEN [ok |-> TRUE, bytes |-> MinimumVolumeSizeInBytes]
    ELSE LET rBytes == capRange.required
             rSet == rBytes > 0
             lBytes == capRange.limit
             lSet == lBytes > 0
         IN IF lSet /\ rSet /\ lBytes < rBytes THEN [ok |-> FALSE, bytes |-> 0]
            ELSE IF lSet /\ lBytes < MinimumVolumeSizeInBytes
                 THEN [ok |-> FALSE, bytes |-> 0]
            ELSE LET capBytes == IF rSet THEN rBytes ELSE 0 IN
                 [ok |-> TRUE,
                  bytes |-> IF capBytes < MinimumVolumeSizeInBytes
                            THEN MinimumVolumeSizeInBytes ELSE capBytes]

(***************************************************************************)
(* The volume lock registry (common.VolumeLocks).                          *)
(***************************************************************************)
TryAcquire(locks, volumeID) ==
    [acquired |-> volumeID \notin locks, locks |-> locks \cup {volumeID}]

Release(locks, volumeID) == locks \ {volumeID}

(***************************************************************************)
(* Node requests.                                                          *)
(***************************************************************************)
Cap(kind, fsType, flags) == [kind |-> kind, fsType |-> fsType, mountFlags |-> flags]
NilCap == Cap("nil", "", <<>>)
\* a capability that is neither mount nor block
NoModeCap == Cap("none", "", <<>>)
BlockCap == Cap("block", "", <<>>)
MountCaps == {Cap("mount", "", <<>>), Cap("mount", "xfs", <<"noatime">>)}
VolumeCapabilities == {NilCap, NoModeCap, BlockCap} \cup MountCaps

StagingOf(id) == IF id = GoodID THEN "/staging/z_d" ELSE "/staging/d"
TargetOf(id) == IF id = GoodID THEN "/target/z_d" ELSE "/target/d"
Paths == {StagingOf(id) : id \in {GoodID, BadID}}
            \cup {TargetOf(id) : id \in {GoodID, BadID}}

NodeReq(op, id, staging, target, cap, ro, vpath, range) ==
    [op |-> op, volumeID |-> id, stagingTargetPath |-> staging,
     targetPath |-> target, volumeCapability |-> cap, readOnly |-> ro,
     partition |-> "", volumePath |-> vpath, capacityRange |-> range]

NoReq == NodeReq("none", EmptyID, "", "", NilCap, FALSE, "", NoRange)

\* The requests given to each handler: every request with its required
\* fields present, and one request per required field with that field missing.
WithoutField(base, field) ==
    CASE field = "volumeID" -> [base EXCEPT !.volumeID = EmptyID]
      [] field = "stagingTargetPath" -> [base EXCEPT !.stagingTargetPath = ""]
      [] field = "targetPath" -> [base EXCEPT !.targetPath = ""]
      [] field = "volumeCapability" -> [base EXCEPT !.volumeCapability = NilCap]
      [] field = "volumePath" -> [base EXCEPT !.volumePath = ""]

PublishBase ==
    NodeReq("NodePublishVolume", GoodID, StagingOf(GoodID), TargetOf(GoodID),
            Cap("mount", "", <<>>), FALSE, "", NoRange)

\* The malformed ID is published in block mode only (the mode that decodes
\* it), so that the paths of one volume carry the mount state of the model.
PublishCaps(id) ==
    IF id = GoodID THEN VolumeCapabilities \ {NilCap} ELSE {BlockCap, NoModeCap}

PublishRequests ==
    UNION {{[PublishBase EXCEPT !.volumeID = id, !.stagingTargetPath = StagingOf(id),
                                !.targetPath = TargetOf(id),
                                !.volumeCapability = c, !.readOnly = ro] :
                c \in PublishCaps(id), ro \in BOOLEAN} :
           id \in {GoodID, BadID}}
    \cup {WithoutField(PublishBase, fl) :
             fl \in {"volumeID", "stagingTargetPath", "targetPath", "volumeCapability"}}

UnpublishBase ==
    NodeReq("NodeUnpublishVolume", GoodID, "", TargetOf(GoodID), NilCap, FALSE, "", NoRange)

UnpublishRequests ==
    {[UnpublishBase EXCEPT !.volumeID = id, !.targetPath = TargetOf(id)] :
        id \in {GoodID, BadID}}
    \cup {WithoutField(UnpublishBase, fl) : fl \in {"volumeID", "targetPath"}}

StageBase ==
    NodeReq("NodeStageVolume", GoodID, StagingOf(GoodID), "",
            Cap("mount", "", <<>>), FALSE, "", NoRange)

StageRequests ==
    UNION {{[StageBase EXCEPT !.volumeID = id, !.stagingTargetPath = StagingOf(id),
                              !.volumeCapability = c] :
                c \in VolumeCapabilities \ {NilCap}} : id \in {GoodID, BadID}}
    \cup {WithoutField(StageBase, fl) :
             fl \in {"volumeID", "stagingTargetPath", "volumeCapability"}}

UnstageBase ==
    NodeReq("NodeUnstageVolume", GoodID, StagingOf(GoodID), "", NilCap, FALSE, "", NoRange)

UnstageRequests ==
    {[UnstageBase EXCEPT !.volumeID = id, !.stagingTargetPath = StagingOf(id)] :
        id \in {GoodID, BadID}}
    \cup {WithoutField(UnstageBase, fl) : fl \in {"volumeID", "stagingTargetPath"}}

ExpandRanges == {NoRange, Range(10 * GiB, 0), Range(10 * GiB, 5 * GiB)}

ExpandBase ==
    NodeReq("NodeExpandVolume", GoodID, "", "", NilCap, FALSE, StagingOf(GoodID), NoRange)

ExpandRequests ==
    UNION {{[ExpandBase EXCEPT !.volumeID = id, !.volumePath = StagingOf(id),
                               !.capacityRange = rg] :
                rg \in ExpandRanges} : id \in {GoodID, BadID}}
    \cup {WithoutField(ExpandBase, fl) : fl \in {"volumeID", "volumePath"}}

\* The handlers that take the volume lock.
LockingOps == {"NodePublishVolume", "NodeUnpublishVolume",
               "NodeStageVolume", "NodeUnstageVolume"}

\* The requests the node's callers send.
NodeRequests ==
    PublishRequests \cup UnpublishRequests \cup StageRequests \cup UnstageRequests
    \cup ExpandRequests

\* The requests of callers that contend for volumes: of every handler, for
\* both volume IDs, in every access type, and with a field missing.
ContendedRequests ==
    {r \in NodeRequests : ~r.readOnly /\ r.volumeCapability.fsType = ""}

\* Requests that pass the field checks, callers sending them again and again.
RetriedRequests ==
    {PublishBase, [PublishBase EXCEPT !.volumeCapability = NoModeCap],
     UnpublishBase, StageBase, UnstageBase, ExpandBase}

\* The node requests of one volume's life: stage, publish, unpublish, unstage.
LifecycleNodeRequests == {StageBase, PublishBase, UnpublishBase, UnstageBase}

\* The requests of the callers named by nodePool.
NodeCallers(callers) ==
    CASE callers.name = "contended" -> ContendedRequests
      [] callers.name = "lifecycle" -> LifecycleNodeRequests
      [] callers.name = "retried" -> RetriedRequests
      [] callers.name = "with" -> {callers.request}
      [] OTHER -> {}

(***************************************************************************)
(* Node responses.                                                         *)
(***************************************************************************)
\* code: the gRPC status; capacityBytes: NodeExpandVolumeResponse;
\* mountCalls: whether the call reached the mount executor or device utils.
\* op: the handler the reply is of; volumeID: the volume the message of an
\* Aborted names, else empty; maxVolumesPerNode, accessibleTopology:
\* NodeGetInfoResponse (the segments of the one topology as key-value pairs).
Reply(code, bytes, calls) ==
    [code |-> code, capacityBytes |-> bytes, mountCalls |-> calls, volumeID |-> <<>>,
     op |-> "", maxVolumesPerNode |-> 0, accessibleTopology |-> {}]
NoResp == Reply("none", 0, FALSE)
AbortedReply(volumeID) == [Reply("Aborted", 0, FALSE) EXCEPT !.volumeID = volumeID]
ReplyOf(op, reply) == [reply EXCEPT !.op = op]

(***************************************************************************)
(* The mount executor (mount.SafeFormatAndMount, DeviceUtils), at its      *)
(* boundary: each call either does its work or fails, as the fault says.   *)
(***************************************************************************)
NoMount == [mounted |-> FALSE, source |-> "", fstype |-> "", opts |-> <<>>]
MountOf(source, fstype, opts) ==
    [mounted |-> TRUE, source |-> source, fstype |-> fstype, opts |-> opts]

\* A check that takes no path for a mount point.
IsLikelyNotMountPointNever(pt, mt, path, fails) ==
    IF fails THEN [notMnt |-> TRUE, err |-> "other"]
    ELSE IF pt[path] = "absent" THEN [notMnt |-> TRUE, err |-> "notexist"]
    ELSE [notMnt |-> TRUE, err |-> "nil"]

IsLikelyNotMountPoint(pt, mt, path, fails) ==
    IF fails THEN [notMnt |-> TRUE, err |-> "other"]
    ELSE IF pt[path] = "absent" THEN [notMnt |-> TRUE, err |-> "notexist"]
    ELSE [notMnt |-> ~mt[path].mounted, err |-> "nil"]

\* MakeDir / MakeFile: create the path unless it is there already.
MakePath(pt, path, type, fails) ==
    IF fails \/ pt[path] \notin {"absent", type} THEN [ok |-> FALSE, pt |-> pt]
    ELSE [ok |-> TRUE, pt |-> [pt EXCEPT ![path] = type]]

\* os.Remove
RemovePath(pt, path) == [pt EXCEPT ![path] = "absent"]

DiskByIdPath(deviceName) ==
    IF deviceName = <<"d">> THEN "/dev/disk/by-id/google-d" ELSE "/dev/disk/by-id/google-other"

\* A device path given whether or not a device is found there.
getDevicePathUnverified(volumeID, f) ==
    LET volumeKey == VolumeIDToKey(volumeID) IN
    IF ~volumeKey.ok THEN [ok |-> FALSE, path |-> ""]
    ELSE [ok |-> TRUE, path |-> DiskByIdPath(volumeKey.name)]

\* getDevicePath: [ok, path]
getDevicePath(volumeID, f) ==
    LET volumeKey == VolumeIDToKey(volumeID) IN
    IF ~volumeKey.ok THEN [ok |-> FALSE, path |-> ""]
    ELSE IF f = "verifyDevice" THEN [ok |-> FALSE, path |-> ""]
    ELSE IF f = "noDevice" THEN [ok |-> FALSE, path |-> ""]
    ELSE [ok |-> TRUE, path |-> DiskByIdPath(volumeKey.name)]

\* validateVolumeCapability: exactly one of mount and block.
validateVolumeCapability(cap) == cap.kind \in {"mount", "block"}

\* What a handler's body leaves: the response and the node's paths and mounts.
Out(code, pt, mt, calls) ==
    [resp |-> Reply(code, 0, calls), pathType |-> pt, mounts |-> mt]

(***************************************************************************)
(* NodePublishVolume.                                                      *)
(***************************************************************************)
\* The required fields of the request.
PublishValid(r) ==
    /\ Len(r.volumeID) # 0
    /\ r.stagingTargetPath # ""
    /\ r.targetPath # ""
    /\ r.volumeCapability.kind # "nil"

\* What the recovery after a failed Mount sees.
MountFaults == {"mount", "mountCheck", "mountPartial", "mountPartialUnmount",
                "mountPartialRecheck", "mountPartialStill"}

\* A recovery that takes a target found mounted after the failed Mount for
\* a mount that succeeded.
PublishMountLenient(pt, mt, source, target, fstype, options, f) ==
    LET mounted == [mt EXCEPT ![target] = MountOf(source, fstype, options)] IN
    IF f \notin MountFaults THEN Out("OK", pt, mounted, TRUE)
    ELSE IF f = "mount" THEN Out("Internal", RemovePath(pt, target), mt, TRUE)
    ELSE IF f = "mountCheck" THEN Out("Internal", pt, mt, TRUE)
    ELSE Out("OK", pt, mounted, TRUE)

\* Mount(sourcePath, targetPath, fstype, options) and, when it fails, the
\* detection and clean-up of a partial mount.
PublishMount(pt, mt, source, target, fstype, options, f) ==
    LET mounted == [mt EXCEPT ![target] = MountOf(source, fstype, options)] IN
    IF f \notin MountFaults THEN Out("OK", pt, mounted, TRUE)
    ELSE IF f = "mount" THEN Out("Internal", RemovePath(pt, target), mt, TRUE)
    ELSE IF f = "mountCheck" THEN Out("Internal", pt, mt, TRUE)
    ELSE IF f = "mountPartialUnmount" THEN Out("Internal", pt, mounted, TRUE)
    ELSE IF f = "mountPartialRecheck" THEN Out("Internal", pt, mt, TRUE)
    ELSE IF f = "mountPartialStill" THEN Out("Internal", pt, mounted, TRUE)
    ELSE Out("Internal", RemovePath(pt, target), mt, TRUE)

\* Bind mounts that are all read-only.
PublishOptionsReadOnly(readOnly) == <<"bind", "ro">>

\* options := []string{"bind"}; if readOnly { options = append(options, "ro") }
PublishOptions(readOnly) == <<"bind">> \o (IF readOnly THEN <<"ro">> ELSE <<>>)

\* A publish that binds the staging path only where a volume is staged on it.
NodePublishVolumeBodyStaged(r, pt, mt, f) ==
    IF mt[r.stagingTargetPath].mounted
    THEN Out("OK", pt,
             [mt EXCEPT ![r.targetPath] =
                 MountOf(r.stagingTargetPath, "ext4", PublishOptions(r.readOnly))],
             TRUE)
    ELSE Out("Internal", pt, mt, TRUE)

NodePublishVolumeBody(r, pt, mt, f) ==
    LET targetPath == r.targetPath
        volumeCapability == r.volumeCapability
        options == PublishOptions(r.readOnly)
    IN
    IF ~validateVolumeCapability(volumeCapability)
    THEN Out("InvalidArgument", pt, mt, FALSE)
    ELSE
    LET chk == IsLikelyNotMountPoint(pt, mt, targetPath, f = "isMnt") IN
    IF chk.err = "other" THEN Out("Internal", pt, mt, TRUE)
    ELSE IF ~chk.notMnt THEN Out("OK", pt, mt, TRUE)
    ELSE IF volumeCapability.kind = "mount" THEN
        LET fstype == IF volumeCapability.fsType # ""
                      THEN volumeCapability.fsType ELSE "ext4"
            mk == MakePath(pt, targetPath, "dir", f = "make")
        IN IF ~mk.ok THEN Out("Internal", pt, mt, TRUE)
           ELSE PublishMount(mk.pt, mt, r.stagingTargetPath, targetPath, fstype,
                             options \o volumeCapability.mountFlags, f)
    ELSE IF volumeCapability.kind = "block" THEN
        LET dev == getDevicePath(r.volumeID, f)
            mk == MakePath(pt, targetPath, "file", f \in {"make", "makeRemove"})
        IN IF ~dev.ok THEN Out("Internal", pt, mt, TRUE)
           ELSE IF ~mk.ok
                THEN Out("Internal",
                         IF f = "makeRemove" THEN pt ELSE RemovePath(pt, targetPath),
                         mt, TRUE)
           ELSE PublishMount(mk.pt, mt, dev.path, targetPath, "", options, f)
    ELSE Out("InvalidArgument", pt, mt, TRUE)

PublishFaults == {"none", "isMnt", "make", "makeRemove", "verifyDevice", "noDevice"}
                    \cup MountFaults

(***************************************************************************)
(* NodeStageVolume.                                                        *)
(***************************************************************************)
StageValid(r) ==
    /\ Len(r.volumeID) # 0
    /\ r.stagingTargetPath # ""
    /\ r.volumeCapability.kind # "nil"

NodeStageVolumeBody(r, pt, mt, f) ==
    LET stagingTargetPath == r.stagingTargetPath
        volumeCapability == r.volumeCapability
    IN
    IF ~validateVolumeCapability(volumeCapability)
    THEN Out("InvalidArgument", pt, mt, FALSE)
    ELSE IF ~VolumeIDToKey(r.volumeID).ok THEN Out("InvalidArgument", pt, mt, FALSE)
    ELSE
    LET dev == getDevicePath(r.volumeID, f)
        chk == IsLikelyNotMountPoint(pt, mt, stagingTargetPath, f = "isMnt")
        mk == MakePath(pt, stagingTargetPath, "dir", f = "make")
    IN
    IF ~dev.ok THEN Out("Internal", pt, mt, TRUE)
    ELSE IF chk.err = "other" THEN Out("Internal", pt, mt, TRUE)
    ELSE IF chk.err = "notexist" /\ ~mk.ok THEN Out("Internal", pt, mt, TRUE)
    ELSE
    LET pt1 == IF chk.err = "notexist" THEN mk.pt ELSE pt
        notMnt == IF chk.err = "notexist" THEN TRUE ELSE chk.notMnt
        isMount == volumeCapability.kind = "mount"
        fstype == IF isMount /\ volumeCapability.fsType # ""
                  THEN volumeCapability.fsType ELSE "ext4"
        options == IF isMount THEN volumeCapability.mountFlags ELSE <<>>
    IN
    IF ~notMnt THEN Out("OK", pt1, mt, TRUE)
    ELSE IF ~isMount /\ volumeCapability.kind = "block" THEN Out("OK", pt1, mt, TRUE)
    ELSE IF f = "mount" THEN Out("Internal", pt1, mt, TRUE)
    ELSE Out("OK", pt1,
             [mt EXCEPT ![stagingTargetPath] = MountOf(dev.path, fstype, options)],
             TRUE)

StageFaults == {"none", "isMnt", "make", "verifyDevice", "noDevice", "mount"}

(***************************************************************************)
(* NodeUnstageVolume and NodeUnpublishVolume.                              *)
(***************************************************************************)
UnpublishValid(r) == Len(r.volumeID) # 0 /\ r.targetPath # ""
UnstageValid(r) == Len(r.volumeID) # 0 /\ r.stagingTargetPath # ""

\* An unstage that leaves the staging path as it finds it.
NodeUnstageVolumeBodyNoop(r, pt, mt, f) ==
    Out("OK", pt, mt, TRUE)

\* A clean-up that fails on a path that is no mount point.
CleanupMountPointStrict(pt, mt, path, f) ==
    IF pt[path] = "absent" \/ ~mt[path].mounted \/ f = "cleanup"
    THEN [ok |-> FALSE, pt |-> pt, mt |-> mt]
    ELSE [ok |-> TRUE, pt |-> RemovePath(pt, path), mt |-> [mt EXCEPT ![path] = NoMount]]

\* mount.CleanupMountPoint: unmount the path if it is a mount point, remove it.
CleanupMountPoint(pt, mt, path, f) ==
    IF pt[path] = "absent" THEN [ok |-> TRUE, pt |-> pt, mt |-> mt]
    ELSE IF f = "cleanup" THEN [ok |-> FALSE, pt |-> pt, mt |-> mt]
    ELSE [ok |-> TRUE, pt |-> RemovePath(pt, path), mt |-> [mt EXCEPT ![path] = NoMount]]

NodeUnpublishVolumeBody(r, pt, mt, f) ==
    LET c == CleanupMountPoint(pt, mt, r.targetPath, f) IN
    Out(IF c.ok THEN "OK" ELSE "Internal", c.pt, c.mt, TRUE)

NodeUnstageVolumeBody(r, pt, mt, f) ==
    LET c == CleanupMountPoint(pt, mt, r.stagingTargetPath, f) IN
    Out(IF c.ok THEN "OK" ELSE "Internal", c.pt, c.mt, TRUE)

CleanupFaults == {"none", "cleanup"}

(***************************************************************************)
(* NodeExpandVolume.                                                       *)
(***************************************************************************)
ExpandValid(r) ==
    /\ Len(r.volumeID) # 0
    /\ getRequestCapacity(r.capacityRange).ok
    /\ r.volumePath # ""
    /\ VolumeIDToKey(r.volumeID).ok

\* The sizes blockdev may report after the resize.
BlockSizes == {5 * GiB, 10 * GiB, 11 * GiB}

\* A size check that takes only the requested size.
NodeExpandVolumeBodyExact(r, pt, mt, f, gotBlockSizeBytes) ==
    LET reqBytes == getRequestCapacity(r.capacityRange).bytes
        dev == getDevicePath(r.volumeID, f)
    IN
    IF ~dev.ok THEN Out("Internal", pt, mt, TRUE)
    ELSE IF f = "resize" THEN Out("Internal", pt, mt, TRUE)
    ELSE IF f = "blockdev" THEN Out("Internal", pt, mt, TRUE)
    ELSE IF gotBlockSizeBytes # reqBytes THEN Out("Internal", pt, mt, TRUE)
    ELSE [resp |-> Reply("OK", reqBytes, TRUE), pathType |-> pt, mounts |-> mt]

NodeExpandVolumeBody(r, pt, mt, f, gotBlockSizeBytes) ==
    LET reqBytes == getRequestCapacity(r.capacityRange).bytes
        dev == getDevicePath(r.volumeID, f)
    IN
    IF ~dev.ok THEN Out("Internal", pt, mt, TRUE)
    ELSE IF f = "resize" THEN Out("Internal", pt, mt, TRUE)
    ELSE IF f = "blockdev" THEN Out("Internal", pt, mt, TRUE)
    ELSE IF gotBlockSizeBytes < reqBytes THEN Out("Internal", pt, mt, TRUE)
    ELSE [resp |-> Reply("OK", reqBytes, TRUE), pathType |-> pt, mounts |-> mt]

ExpandFaults == {"none", "verifyDevice", "noDevice", "resize", "blockdev"}

(***************************************************************************)
(* The node service: each handler is entered (the required-field checks    *)
(* and TryAcquire, which the registry's mutex makes one step) and later    *)
(* returns (its body against the mount executor, then the deferred         *)
(* Release).  Calls on one volume ID never overlap past the lock and calls *)
(* on different IDs are given different paths, so a body is one step.      *)
(***************************************************************************)
\* One key for every request: a lock of the node, not of the volume.
LockKeyOfNode(r) == <<>>

\* The key a handler locks: "ns.volumeLocks.TryAcquire(volumeID)".
LockKey(r) == r.volumeID

\* An entry that goes on without the lock.
EntryCodeNoAbort(valid, acquired) ==
    IF ~valid THEN "InvalidArgument" ELSE "proceed"

\* A release that is skipped when the handler fails.
ReleaseOnSuccess(locks, volumeID, code) ==
    IF code = "OK" THEN Release(locks, volumeID) ELSE locks

\* An entry that tries the lock before it looks at the fields.
EntryCodeLockFirst(valid, acquired) ==
    IF ~acquired THEN "Aborted"
    ELSE IF ~valid THEN "InvalidArgument"
    ELSE "proceed"

\* How a locking handler leaves its entry: the field checks, then
\* "if acquired := TryAcquire(volumeID); !acquired { return Aborted }".
EntryCode(valid, acquired) ==
    IF ~valid THEN "InvalidArgument"
    ELSE IF ~acquired THEN "Aborted"
    ELSE "proceed"

\* defer ns.volumeLocks.Release(volumeID): runs whatever the handler returns.
DeferredRelease(locks, volumeID, code) == Release(locks, volumeID)

Enter(t, r, valid) ==
    LET lk == TryAcquire(volumeLocks, LockKey(r))
        code == EntryCode(valid, lk.acquired)
    IN
    /\ pc[t] = "idle"
    /\ r \in NodeCallers(nodePool)
    /\ IF code = "proceed"
       THEN /\ pc' = [pc EXCEPT ![t] = "running"]
            /\ req' = [req EXCEPT ![t] = r]
            /\ resp' = [resp EXCEPT ![t] = NoResp]
            /\ volumeLocks' = lk.locks
       ELSE /\ resp' = [resp EXCEPT ![t] =
                           ReplyOf(r.op, IF code = "Aborted"
                                         THEN AbortedReply(r.volumeID)
                                         ELSE Reply(code, 0, FALSE))]
            /\ UNCHANGED <<pc, req, volumeLocks>>
    /\ UNCHANGED <<pathType, mounts, nodePool>>

Return(t, out) ==
    /\ pc' = [pc EXCEPT ![t] = "idle"]
    /\ req' = [req EXCEPT ![t] = NoReq]
    /\ resp' = [resp EXCEPT ![t] = ReplyOf(req[t].op, out.resp)]
    /\ pathType' = out.pathType
    /\ mounts' = out.mounts
    /\ volumeLocks' = DeferredRelease(volumeLocks, LockKey(req[t]), out.resp.code)
    /\ UNCHANGED nodePool

Running(t, op) == pc[t] = "running" /\ req[t].op = op

NodePublishVolume(t) == \E r \in PublishRequests : Enter(t, r, PublishValid(r))

NodePublishVolumeReturn(t) ==
    /\ Running(t, "NodePublishVolume")
    /\ \E f \in PublishFaults :
           Return(t, NodePublishVolumeBody(req[t], pathType, mounts, f))

NodeUnpublishVolume(t) == \E r \in UnpublishRequests : Enter(t, r, UnpublishValid(r))

NodeUnpublishVolumeReturn(t) ==
    /\ Running(t, "NodeUnpublishVolume")
    /\ \E f \in CleanupFaults :
           Return(t, NodeUnpublishVolumeBody(req[t], pathType, mounts, f))

NodeStageVolume(t) == \E r \in StageRequests : Enter(t, r, StageValid(r))

NodeStageVolumeReturn(t) ==
    /\ Running(t, "NodeStageVolume")
    /\ \E f \in StageFaults :
           Return(t, NodeStageVolumeBody(req[t], pathType, mounts, f))

NodeUnstageVolume(t) == \E r \in UnstageRequests : Enter(t, r, UnstageValid(r))

NodeUnstageVolumeReturn(t) ==
    /\ Running(t, "NodeUnstageVolume")
    /\ \E f \in CleanupFaults :
           Return(t, NodeUnstageVolumeBody(req[t], pathType, mounts, f))

\* NodeExpandVolume takes no lock: its entry is the argument checks alone.
NodeExpandVolume(t) ==
    /\ pc[t] = "idle"
    /\ \E r \in ExpandRequests \cap NodeCallers(nodePool) :
           IF ExpandValid(r)
           THEN /\ pc' = [pc EXCEPT ![t] = "running"]
                /\ req' = [req EXCEPT ![t] = r]
                /\ resp' = [resp EXCEPT ![t] = NoResp]
           ELSE /\ resp' = [resp EXCEPT ![t] =
                               ReplyOf(r.op, Reply("InvalidArgument", 0, FALSE))]
                /\ UNCHANGED <<pc, req>>
    /\ UNCHANGED <<volumeLocks, pathType, mounts, nodePool>>

NodeExpandVolumeReturn(t) ==
    /\ Running(t, "NodeExpandVolume")
    /\ \E f \in ExpandFaults, got \in BlockSizes :
           LET out == NodeExpandVolumeBody(req[t], pathType, mounts, f, got) IN
           /\ pc' = [pc EXCEPT ![t] = "idle"]
           /\ req' = [req EXCEPT ![t] = NoReq]
           /\ resp' = [resp EXCEPT ![t] = ReplyOf(req[t].op, out.resp)]
           /\ UNCHANGED <<volumeLocks, pathType, mounts, nodePool>>

(***************************************************************************)
(* Controller requests and responses.                                      *)
(***************************************************************************)
TopologyKeyZone == "topology.gke.io/zone"
ParameterKeyType == "type"
ParameterKeyZone == "zone"

DiskTypeSSD == <<"pd-ssd">>
DiskTypeStandard == <<"pd-standard">>

\* The zone the driver itself runs in (CloudProvider.GetZone).
DriverZone == <<"z">>
OtherZone == <<"y">>
Zones == {DriverZone, OtherZone}
DiskName == <<"d">>
Names == {DiskName}
DiskKeys == Zones \X Names

\* csi.Topology: its segments, a map from keys to values, or nil.
Segments(pairs) == [isNil |-> FALSE, pairs |-> pairs]
NilSegments == [isNil |-> TRUE, pairs |-> {}]
ZoneSegment(zone) == Segments({<<TopologyKeyZone, zone>>})

\* csi.TopologyRequirement, or none.
Topology(requisite, preferred) ==
    [present |-> TRUE, requisite |-> requisite, preferred |-> preferred]
NoTopology == [present |-> FALSE, requisite |-> <<>>, preferred |-> <<>>]

CtrlReq(op, name, caps, range, params, top, volumeID, nodeID, cap, ro) ==
    [op |-> op, name |-> name, hasCapabilities |-> caps, capacityRange |-> range,
     parameters |-> params, accessibilityRequirements |-> top,
     volumeID |-> volumeID, nodeID |-> nodeID, hasCapability |-> cap, readOnly |-> ro,
     snapshotID |-> <<>>, accessModes |-> <<>>, accessibleTopology |-> <<>>,
     sourceVolumeID |-> <<>>]

CreateReq(name, caps, range, params, top) ==
    CtrlReq("CreateVolume", name, caps, range, params, top, <<>>, "", FALSE, FALSE)
DeleteReq(volumeID) ==
    CtrlReq("DeleteVolume", <<>>, FALSE, NoRange, <<>>, NoTopology, volumeID, "", FALSE, FALSE)
PublishReq(volumeID, nodeID, cap, ro) ==
    CtrlReq("ControllerPublishVolume", <<>>, FALSE, NoRange, <<>>, NoTopology,
            volumeID, nodeID, cap, ro)
UnpublishReq(volumeID, nodeID) ==
    CtrlReq("ControllerUnpublishVolume", <<>>, FALSE, NoRange, <<>>, NoTopology,
            volumeID, nodeID, FALSE, FALSE)
NoCtrlReq == CtrlReq("none", <<>>, FALSE, NoRange, <<>>, NoTopology, <<>>, "", FALSE, FALSE)
DeleteSnapshotReq(snapshotID) ==
    [NoCtrlReq EXCEPT !.op = "DeleteSnapshot", !.snapshotID = snapshotID]

CreateSnapshotReq(name, sourceVolumeID) ==
    [NoCtrlReq EXCEPT !.op = "CreateSnapshot", !.name = name,
                      !.sourceVolumeID = sourceVolumeID]

\* ValidateVolumeCapabilities: the access modes of the requested capabilities
\* and the accessible topology, a list of csi.Topology.
ValidateReq(volumeID, modes, top) ==
    [NoCtrlReq EXCEPT !.op = "ValidateVolumeCapabilities", !.volumeID = volumeID,
                      !.accessModes = modes, !.accessibleTopology = top]

\* supported: "none" when the handler returns no response, else what the
\* ValidateVolumeCapabilitiesResponse says, with a message or without.
CtrlReply(code, volumeID, bytes, zone) ==
    [code |-> code, volumeID |-> volumeID, capacityBytes |-> bytes, zone |-> zone,
     supported |-> "none", message |-> FALSE, snapshotID |-> <<>>, status |-> "none"]
ValidateReply(code, supported, message) ==
    [CtrlReply(code, <<>>, 0, <<>>) EXCEPT !.supported = IF supported THEN "yes" ELSE "no",
                                           !.message = message]
ErrorReply(code) == CtrlReply(code, <<>>, 0, <<>>)
NoCtrlResp == ErrorReply("none")

(***************************************************************************)
(* CreateVolume: the part before the first cloud call.                     *)
(***************************************************************************)
ToLower(k) ==
    CASE k \in {"type", "Type", "TYPE"} -> "type"
      [] k \in {"zone", "Zone", "ZONE"} -> "zone"
      [] k = "Replication-Type" -> "replication-type"
      [] k = "Disk-Encryption-Kms-Key" -> "disk-encryption-kms-key"
      [] k = "FsType" -> "fstype"
      [] OTHER -> k

\* "for k, v := range req.GetParameters()": params lists the map in the order
\* the iteration visits it.
RECURSIVE ApplyParameters(_, _)
ApplyParameters(params, acc) ==
    IF params = <<>> THEN acc
    ELSE LET k == Head(params)[1]
             v == Head(params)[2]
         IN IF k = "csiProvisionerSecretName" \/ k = "csiProvisionerSecretNamespace"
            THEN ApplyParameters(Tail(params), acc)
            ELSE IF ToLower(k) = ParameterKeyType
            THEN ApplyParameters(Tail(params), [acc EXCEPT !.diskType = v])
            ELSE IF ToLower(k) = ParameterKeyZone
            THEN ApplyParameters(Tail(params), [acc EXCEPT !.configuredZone = v])
            ELSE [acc EXCEPT !.ok = FALSE]

\* getZoneFromSegment: [ok, zone]
getZoneFromSegment(seg) ==
    LET zones == {kv[2] : kv \in {x \in seg.pairs : x[1] = TopologyKeyZone}}
        zone == IF zones = {} THEN <<>> ELSE CHOOSE z \in zones : TRUE
    IN IF \E kv \in seg.pairs : kv[1] # TopologyKeyZone THEN [ok |-> FALSE, zone |-> <<>>]
       ELSE IF Len(zone) = 0 THEN [ok |-> FALSE, zone |-> <<>>]
       ELSE [ok |-> TRUE, zone |-> zone]

\* A selection that looks at the requisite list before the preferred one.
pickTopologyRequisiteFirst(top, r) ==
    LET reqTop == top.requisite
        prefTop == top.preferred
    IN IF Len(reqTop) # 0
       THEN IF reqTop[r].isNil THEN [ok |-> FALSE, zone |-> <<>>]
            ELSE getZoneFromSegment(reqTop[r])
       ELSE IF Len(prefTop) # 0
       THEN IF prefTop[1].isNil THEN [ok |-> FALSE, zone |-> <<>>]
            ELSE getZoneFromSegment(prefTop[1])
       ELSE [ok |-> FALSE, zone |-> <<>>]

\* pickTopology: [ok, zone]; r is the index rand.Intn draws (from 1 here).
pickTopology(top, r) ==
    LET reqTop == top.requisite
        prefTop == top.preferred
    IN IF Len(prefTop) # 0
       THEN IF prefTop[1].isNil THEN [ok |-> FALSE, zone |-> <<>>]
            ELSE getZoneFromSegment(prefTop[1])
       ELSE IF Len(reqTop) # 0
       THEN IF reqTop[r].isNil THEN [ok |-> FALSE, zone |-> <<>>]
            ELSE getZoneFromSegment(reqTop[r])
       ELSE [ok |-> FALSE, zone |-> <<>>]

\* The indices rand.Intn(len(reqTop)) may draw.
RandomIndices(top) ==
    IF top.present /\ Len(top.preferred) = 0 /\ Len(top.requisite) # 0
    THEN 1..Len(top.requisite) ELSE {1}

Prepared(ok, capBytes, diskType, zone) ==
    [ok |-> ok, capBytes |-> capBytes, diskType |-> diskType, configuredZone |-> zone]
NotPrepared == Prepared(FALSE, 0, <<>>, <<>>)

\* A handler that lets the zone parameter stand beside the accessibility
\* requirements, and win.
CreateVolumePrepareParameterFirst(r, rnd) ==
    LET capBytes == getRequestCapacity(r.capacityRange)
        applied == ApplyParameters(r.parameters,
                                   Prepared(TRUE, capBytes.bytes, DiskTypeStandard, <<>>))
        top == r.accessibilityRequirements
        picked == pickTopology(top, rnd)
    IN IF Len(r.name) = 0 THEN NotPrepared
       ELSE IF ~r.hasCapabilities THEN NotPrepared
       ELSE IF ~capBytes.ok THEN NotPrepared
       ELSE IF ~applied.ok THEN NotPrepared
       ELSE IF top.present /\ ~picked.ok THEN NotPrepared
       ELSE LET zone == IF Len(applied.configuredZone) # 0 THEN applied.configuredZone
                        ELSE IF top.present THEN picked.zone ELSE <<>>
            IN [applied EXCEPT !.configuredZone = IF Len(zone) = 0 THEN DriverZone ELSE zone]

\* CreateVolume up to "configuredZone = gceCS.CloudProvider.GetZone()":
\* not ok means InvalidArgument.
CreateVolumePrepare(r, rnd) ==
    LET capBytes == getRequestCapacity(r.capacityRange)
        applied == ApplyParameters(r.parameters,
                                   Prepared(TRUE, capBytes.bytes, DiskTypeStandard, <<>>))
        top == r.accessibilityRequirements
        picked == pickTopology(top, rnd)
    IN IF Len(r.name) = 0 THEN NotPrepared
       ELSE IF ~r.hasCapabilities THEN NotPrepared
       ELSE IF ~capBytes.ok THEN NotPrepared
       ELSE IF ~applied.ok THEN NotPrepared
       ELSE IF top.present /\ Len(applied.configuredZone) # 0 THEN NotPrepared
       ELSE IF top.present /\ ~picked.ok THEN NotPrepared
       ELSE LET zone == IF top.present THEN picked.zone ELSE applied.configuredZone IN
            [applied EXCEPT !.configuredZone = IF Len(zone) = 0 THEN DriverZone ELSE zone]

(***************************************************************************)
(* The cloud disk client (gce.GCECompute) at its boundary.  A long-running *)
(* operation takes effect when the wait for it returns.                    *)
(***************************************************************************)
MinimumDiskSizeInGb == 5

BytesToGb(bytes) == bytes \div GiB
GbToBytes(gb) == gb * GiB

NoDisk == [exists |-> FALSE, sizeGb |-> 0, type |-> <<>>]
Disk(sizeGb, type) == [exists |-> TRUE, sizeGb |-> sizeGb, type |-> type]

DiskAt(ds, zone, name) ==
    IF <<zone, name>> \in DiskKeys THEN ds[<<zone, name>>] ELSE NoDisk

\* The instances of the project.
Instances == {<<DriverZone, "n1">>}
AttachedDisk(deviceName, mode) == [deviceName |-> deviceName, mode |-> mode]
InstanceDisks(att, zone, nodeID) ==
    IF <<zone, nodeID>> \in DOMAIN att THEN att[<<zone, nodeID>>] ELSE {}

\* Whether some instance holds the disk.
InUse(att, zone, name) ==
    \E i \in DOMAIN att : i[1] = zone /\ \E d \in att[i] : d.deviceName = name

\* The disk fits the requested type and capacity bounds.
DiskCompatible(disk, diskType, reqBytes, limBytes) ==
    /\ GbToBytes(disk.sizeGb) >= reqBytes \/ reqBytes = 0
    /\ GbToBytes(disk.sizeGb) <= limBytes \/ limBytes = 0
    /\ disk.type = diskType

\* GetAndValidateExistingDisk: [exists, err]
GetAndValidateExistingDisk(ds, zone, name, diskType, reqBytes, limBytes, fails) ==
    LET disk == DiskAt(ds, zone, name) IN
    IF fails THEN [exists |-> FALSE, err |-> "Internal"]
    ELSE IF ~disk.exists THEN [exists |-> FALSE, err |-> "nil"]
    ELSE IF ~DiskCompatible(disk, diskType, reqBytes, limBytes)
         THEN [exists |-> TRUE, err |-> "AlreadyExists"]
    ELSE [exists |-> TRUE, err |-> "nil"]

(***************************************************************************)
(* The requests the callers send.                                          *)
(***************************************************************************)
TypeSSD == <<<<"type", DiskTypeSSD>>>>
FiveGiB == Range(5 * GiB, 0)

\* Requests for the one name: the same one from both callers, others that
\* differ from it in type, size or zone, and one per failing argument check.
CreateRequests ==
    {CreateReq(DiskName, TRUE, FiveGiB, <<>>, NoTopology),
     CreateReq(DiskName, TRUE, FiveGiB, TypeSSD, NoTopology),
     CreateReq(DiskName, TRUE, Range(10 * GiB, 0), <<>>, NoTopology),
     CreateReq(DiskName, TRUE, Range(0, 7 * GiB), <<>>, NoTopology),
     CreateReq(DiskName, TRUE, NoRange, <<<<"Zone", OtherZone>>>>, NoTopology),
     CreateReq(DiskName, TRUE, NoRange, <<>>,
               Topology(<<ZoneSegment(DriverZone), ZoneSegment(OtherZone)>>, <<>>)),
     CreateReq(DiskName, TRUE, NoRange, <<>>,
               Topology(<<ZoneSegment(DriverZone)>>, <<ZoneSegment(OtherZone)>>)),
     CreateReq(<<>>, TRUE, FiveGiB, <<>>, NoTopology),
     CreateReq(DiskName, FALSE, FiveGiB, <<>>, NoTopology),
     CreateReq(DiskName, TRUE, Range(10 * GiB, 5 * GiB), <<>>, NoTopology),
     CreateReq(DiskName, TRUE, FiveGiB, <<<<"fstype", <<"ext4">>>>>>, NoTopology),
     CreateReq(DiskName, TRUE, FiveGiB, <<>>, Topology(<<NilSegments>>, <<>>))}

\* The requests of callers that race to create the one name: the same request
\* from both, others that differ from it in type, size or zone, and one that
\* fails the argument checks.
RacingCreates ==
    {r \in CreateRequests :
        /\ r.hasCapabilities
        /\ r.capacityRange \in {FiveGiB, Range(10 * GiB, 0), NoRange}
        /\ \A i \in 1..Len(r.parameters) : r.parameters[i][1] # "fstype"
        /\ r.accessibilityRequirements.preferred = <<>>
        /\ \A i \in 1..Len(r.accessibilityRequirements.requisite) :
               ~r.accessibilityRequirements.requisite[i].isNil}

VolumeIDs == {CombineVolumeId(DriverZone, DiskName), DiskName, <<>>}
NodeIDs == {"n1", "n2", ""}

VolumeRequests ==
    {CreateReq(DiskName, TRUE, FiveGiB, <<>>, NoTopology)}
    \cup {DeleteReq(id) : id \in VolumeIDs}
    \cup {PublishReq(CombineVolumeId(DriverZone, DiskName), "n1", TRUE, ro) : ro \in BOOLEAN}
    \cup {PublishReq(id, "n1", TRUE, FALSE) : id \in VolumeIDs}
    \cup {PublishReq(CombineVolumeId(DriverZone, DiskName), n, TRUE, FALSE) : n \in NodeIDs}
    \cup {PublishReq(CombineVolumeId(DriverZone, DiskName), "n1", FALSE, FALSE)}
    \cup {UnpublishReq(id, "n1") : id \in VolumeIDs}
    \cup {UnpublishReq(CombineVolumeId(DriverZone, DiskName), n) : n \in NodeIDs}

\* Deleting volumes and snapshots, with a volume created and attached.
SnapshotName == <<"s">>
SnapshotNames == {SnapshotName}
DeleteRequests ==
    {CreateReq(DiskName, TRUE, FiveGiB, <<>>, NoTopology),
     PublishReq(CombineVolumeId(DriverZone, DiskName), "n1", TRUE, FALSE)}
    \cup {DeleteReq(id) : id \in VolumeIDs}
    \cup {DeleteSnapshotReq(id) : id \in {SnapshotName, <<>>}}

\* Creating and deleting the one snapshot, of the disk, of a disk in another
\* zone and of a malformed source, with the disk created.
SnapshotRequests ==
    {CreateReq(DiskName, TRUE, FiveGiB, <<>>, NoTopology),
     DeleteSnapshotReq(SnapshotName)}
    \cup {CreateSnapshotReq(SnapshotName, id) :
             id \in VolumeIDs \cup {CombineVolumeId(OtherZone, DiskName)}}

\* The accessibility requirements: lists of up to MaxSegments topologies,
\* each with nil segments, with the zone key, or with another key as well;
\* a requisite list of two or more only where nothing is preferred.
MaxSegments == 2
KubernetesTopologyKeyZone == "failure-domain.beta.kubernetes.io/zone"
SegmentValues ==
    {NilSegments, ZoneSegment(DriverZone), ZoneSegment(OtherZone),
     Segments({<<TopologyKeyZone, OtherZone>>, <<KubernetesTopologyKeyZone, OtherZone>>})}
TopologyLists == UNION {[1..n -> SegmentValues] : n \in 0..MaxSegments}
TopologyRequirements ==
    {Topology(requisite, preferred) : requisite \in TopologyLists, preferred \in TopologyLists}

\* The parameters: up to MaxParameters keys, each with its one value, in any
\* order of iteration.
MaxParameters == 2
ParameterKeyReplicationType == "replication-type"
ParameterKeyDiskEncryptionKmsKey == "disk-encryption-kms-key"
ParameterValue(k) ==
    IF ToLower(k) = ParameterKeyType THEN DiskTypeSSD
    ELSE IF ToLower(k) = ParameterKeyZone THEN OtherZone
    ELSE <<"v">>
ParameterKeys ==
    {"type", "TYPE", "zone", "Zone", "replication-type", "Replication-Type",
     "disk-encryption-kms-key", "csiProvisionerSecretName",
     "csiProvisionerSecretNamespace", "fstype"}
ParameterLists ==
    UNION {{[i \in 1..n |-> <<keys[i], ParameterValue(keys[i])>>] :
               keys \in {ks \in [1..n -> ParameterKeys] :
                            \A i, j \in 1..n : i # j => ks[i] # ks[j]}} :
           n \in 0..MaxParameters}

\* ValidateVolumeCapabilities: the driver's access modes (Driver.vcap), the
\* modes a request may ask for, and the requests: each kind of identifier,
\* each list of modes and each accessible topology, the rest as it should be.
DriverModes == {"SINGLE_NODE_WRITER", "MULTI_NODE_READER_ONLY"}
AccessModes == DriverModes \cup {"MULTI_NODE_MULTI_WRITER", "UNKNOWN"}
AccessModeLists ==
    {<<>>} \cup {<<m>> : m \in AccessModes}
    \cup {<<"SINGLE_NODE_WRITER", m>> : m \in AccessModes}
AccessibleTopologies ==
    {<<>>, <<NilSegments>>} \cup {<<seg>> : seg \in SegmentValues}
    \cup {<<NilSegments, ZoneSegment(OtherZone)>>,
          <<ZoneSegment(DriverZone), ZoneSegment(OtherZone)>>,
          <<ZoneSegment(OtherZone), ZoneSegment(DriverZone)>>,
          <<Segments({<<KubernetesTopologyKeyZone, DriverZone>>})>>}
ValidateRequests ==
    {ValidateReq(id, <<"SINGLE_NODE_WRITER">>, <<>>) : id \in VolumeIDs}
    \cup {ValidateReq(CombineVolumeId(DriverZone, DiskName), modes, <<>>) :
             modes \in AccessModeLists}
    \cup {ValidateReq(CombineVolumeId(DriverZone, DiskName), <<"SINGLE_NODE_WRITER">>, top) :
             top \in AccessibleTopologies}
    \cup {ValidateReq(CombineVolumeId(DriverZone, DiskName), <<"UNKNOWN">>,
                      <<ZoneSegment(DriverZone)>>)}

\* Every CapacityRange with bounds from below zero up to MaxBytes.
MaxBytes == 12
CapacityRanges ==
    {NoRange} \cup {Range(r, l) : r, l \in (0 - 1)..MaxBytes}
\* The requests of the callers described by pool.
Callers(name, range) ==
    [requests |-> name, range |-> range, parameters |-> <<>>,
     accessibilityRequirements |-> NoTopology, request |-> NoCtrlReq]
\* Callers that create the disk, and send this one other request.
CallersWith(r) == [Callers("with", NoRange) EXCEPT !.request = r]
\* A caller of CreateVolume with the one request of these parameters and
\* accessibility requirements.
Caller(params, top) ==
    [Callers("request", NoRange) EXCEPT !.parameters = params,
                                        !.accessibilityRequirements = top]
NoCallers == Callers("none", NoRange)

\* The controller requests of one volume's life: create with 20 GiB required,
\* publish read-write to the node, unpublish, delete.
LifecycleRequests ==
    {CreateReq(DiskName, TRUE, Range(20 * GiB, 0), <<>>, NoTopology),
     PublishReq(CombineVolumeId(DriverZone, DiskName), "n1", TRUE, FALSE),
     UnpublishReq(CombineVolumeId(DriverZone, DiskName), "n1"),
     DeleteReq(CombineVolumeId(DriverZone, DiskName))}

\* Publishing the disk to either of two nodes, read-only or read-write, and
\* unpublishing it from either.
AttachRequests ==
    {PublishReq(CombineVolumeId(DriverZone, DiskName), n, TRUE, ro) :
        n \in {"n1", "n2"}, ro \in BOOLEAN}
    \cup {UnpublishReq(CombineVolumeId(DriverZone, DiskName), n) : n \in {"n1", "n2"}}

Sent(callers) ==
    CASE callers.requests = "create" -> RacingCreates
      [] callers.requests = "attach" -> AttachRequests
      [] callers.requests = "lifecycle" -> LifecycleRequests
      [] callers.requests = "arguments" -> CreateRequests
      [] callers.requests = "volume" -> VolumeRequests
      [] callers.requests = "delete" -> DeleteRequests
      [] callers.requests = "snapshot" -> SnapshotRequests
      [] callers.requests = "capacity" ->
             {CreateReq(DiskName, TRUE, callers.range, <<>>, NoTopology)}
      [] callers.requests = "with" ->
             {CreateReq(DiskName, TRUE, FiveGiB, <<>>, NoTopology), callers.request}
      [] callers.requests = "request" ->
             {CreateReq(DiskName, TRUE, callers.range, callers.parameters,
                        callers.accessibilityRequirements)}
      [] OTHER -> {}

\* The one request of each caller: any parameters without accessibility
\* requirements, any accessibility requirements without parameters, and the
\* zone parameter or the type parameter with accessibility requirements of
\* one entry.
RequestArguments ==
    {Caller(params, NoTopology) : params \in ParameterLists}
    \cup {Caller(<<>>, top) :
             top \in {x \in TopologyRequirements :
                         Len(x.requisite) <= 1 \/ Len(x.preferred) = 0}}
    \cup {Caller(<<<<k, ParameterValue(k)>>>>, top) :
             k \in {"zone", "type"},
             top \in {x \in TopologyRequirements :
                         Len(x.requisite) <= 1 /\ Len(x.preferred) <= 1}}

(***************************************************************************)
(* The controller service.  A handler is entered (its argument checks) and *)
(* then takes one step per cloud call; other tasks run in between.         *)
(***************************************************************************)
CtrlTasks == {"c1", "c2"}

Local(zone, name, diskType, capBytes, instDisks) ==
    [zone |-> zone, name |-> name, diskType |-> diskType, capBytes |-> capBytes,
     instDisks |-> instDisks]
NoLocal == Local(<<>>, <<>>, <<>>, 0, {})

\* calls: the cloud calls the call has made; issued: the mutating cloud requests the call has sent; faulted: the cloud
\* failed a call of it for a reason of its own; after: the tasks whose latest
\* call had returned when this one was entered.
NoHist == [calls |-> 0, issued |-> 0, faulted |-> FALSE, after |-> {}]

AtIdle(t) == cpc[t] = "idle"
Called(t, op) == creq[t].op = op
Returned(t, op) == AtIdle(t) /\ Called(t, op) /\ cresp[t].code # "none"

\* Entering a call: the latest call of t is now this one.
Begin(t, r) ==
    /\ AtIdle(t)
    /\ r \in Sent(pool)
    /\ creq' = [creq EXCEPT ![t] = r]
    /\ hist' = [u \in CtrlTasks |->
                   IF u = t
                   THEN [NoHist EXCEPT !.after =
                            {w \in CtrlTasks \ {t} : AtIdle(w) /\ cresp[w].code # "none"}]
                   ELSE [hist[u] EXCEPT !.after = @ \ {t}]]

\* The handler returns.
Finish(t, reply) ==
    /\ cpc' = [cpc EXCEPT ![t] = "idle"]
    /\ cresp' = [cresp EXCEPT ![t] = reply]
    /\ UNCHANGED clocal

\* The handler goes on to its next cloud call.
Goto(t, label) ==
    /\ cpc' = [cpc EXCEPT ![t] = label]
    /\ UNCHANGED <<cresp, clocal>>

Note(t, issue, fault) ==
    hist' = [hist EXCEPT ![t] = [@ EXCEPT !.calls = @ + 1,
                                          !.issued = @ + (IF issue THEN 1 ELSE 0),
                                          !.faulted = @ \/ fault]]

(***************************************************************************)
(* CreateVolume.                                                           *)
(***************************************************************************)
\* A response whose volume ID is the name alone.
createRespOfName(l) ==
    CtrlReply("OK", l.name, l.capBytes, l.zone)

createResp(l) ==
    CtrlReply("OK", CombineVolumeId(l.zone, l.name), l.capBytes, l.zone)

\* A handler that never takes the disk it finds.
AfterExistingCheckNoReuse(exists, err) ==
    IF err # "nil" THEN "error" ELSE "insert"

\* A handler that takes the disk it finds whatever the validation said.
AfterExistingCheckAnyDisk(exists, err) ==
    IF exists THEN "reuse" ELSE IF err # "nil" THEN "error" ELSE "insert"

\* A handler for which every insert error is fatal.
AfterInsertErrorFatal(err) == "Internal"

\* After GetAndValidateExistingDisk, before the insert:
\* "if err != nil { return nil, err }; if exists { return createResp, nil }".
AfterExistingCheck(exists, err) ==
    IF err # "nil" THEN "error"
    ELSE IF exists THEN "reuse"
    ELSE "insert"

\* After an error of InsertDisk or of WaitForOp on the insert:
\* "alreadyExists" leads to the check again, any other error to Internal.
AfterInsertError(err) ==
    IF err = "alreadyExists" THEN "revalidate" ELSE "Internal"

\* After the check that follows "alreadyExists":
\* "_, err := GetAndValidateExistingDisk(...); if err != nil { return nil, err }".
AfterRevalidate(exists, err) ==
    IF err # "nil" THEN "error" ELSE "reuse"

\* "sizeGb := BytesToGb(capBytes); if sizeGb < MinimumDiskSizeInGb ..."
diskToCreate(l) ==
    LET sizeGb == BytesToGb(l.capBytes) IN
    Disk(IF sizeGb < MinimumDiskSizeInGb THEN MinimumDiskSizeInGb ELSE sizeGb,
         l.diskType)

ExistingDisk(t, fails) ==
    GetAndValidateExistingDisk(disks, clocal[t].zone, clocal[t].name,
                               clocal[t].diskType, creq[t].capacityRange.required,
                               creq[t].capacityRange.limit, fails)

CreateVolume(t) ==
    \E r \in Sent(pool) :
        /\ r.op = "CreateVolume"
        /\ Begin(t, r)
        /\ \E rnd \in RandomIndices(r.accessibilityRequirements) :
               LET prep == CreateVolumePrepare(r, rnd) IN
               IF ~prep.ok
               THEN /\ cresp' = [cresp EXCEPT ![t] = ErrorReply("InvalidArgument")]
                    /\ clocal' = [clocal EXCEPT ![t] = NoLocal]
                    /\ UNCHANGED cpc
               ELSE /\ cpc' = [cpc EXCEPT ![t] = "cv_get"]
                    /\ cresp' = [cresp EXCEPT ![t] = NoCtrlResp]
                    /\ clocal' = [clocal EXCEPT ![t] =
                                     Local(prep.configuredZone, r.name, prep.diskType,
                                           prep.capBytes, {})]
        /\ UNCHANGED <<disks, attached, pool, snapshots>>

CreateVolumeGet(t) ==
    /\ cpc[t] = "cv_get"
    /\ \E fails \in BOOLEAN :
           LET g == ExistingDisk(t, fails)
               next == AfterExistingCheck(g.exists, g.err)
           IN /\ Note(t, FALSE, fails)
              /\ IF next = "error" THEN Finish(t, ErrorReply(g.err))
                 ELSE IF next = "reuse" THEN Finish(t, createResp(clocal[t]))
                 ELSE Goto(t, "cv_insert")
    /\ UNCHANGED <<disks, attached, creq, pool, snapshots>>

\* InsertDisk: the cloud refuses at once, or accepts the operation.
CreateVolumeInsert(t) ==
    /\ cpc[t] = "cv_insert"
    /\ \E err \in {"nil", "alreadyExists", "other"} :
           /\ err = "alreadyExists" => DiskAt(disks, clocal[t].zone, clocal[t].name).exists
           /\ Note(t, TRUE, err = "other")
           /\ IF err = "nil" THEN Goto(t, "cv_wait")
              ELSE IF AfterInsertError(err) = "revalidate" THEN Goto(t, "cv_reget")
              ELSE Finish(t, ErrorReply("Internal"))
    /\ UNCHANGED <<disks, attached, creq, pool, snapshots>>

\* WaitForOp on the insert: the disk is created, unless one is there by now.
CreateVolumeWait(t) ==
    /\ cpc[t] = "cv_wait"
    /\ LET l == clocal[t]
           taken == DiskAt(disks, l.zone, l.name).exists
       IN \E err \in {"nil", "alreadyExists", "other"} :
              /\ err = "alreadyExists" <=> (taken /\ err # "other")
              /\ Note(t, FALSE, err = "other")
              /\ IF err = "nil"
                 THEN /\ disks' = [disks EXCEPT ![<<l.zone, l.name>>] = diskToCreate(l)]
                      /\ Finish(t, createResp(l))
                 ELSE /\ UNCHANGED disks
                      /\ IF AfterInsertError(err) = "revalidate" THEN Goto(t, "cv_reget")
                         ELSE Finish(t, ErrorReply("Internal"))
    /\ UNCHANGED <<attached, creq, pool, snapshots>>

CreateVolumeRevalidate(t) ==
    /\ cpc[t] = "cv_reget"
    /\ \E fails \in BOOLEAN :
           LET g == ExistingDisk(t, fails) IN
           /\ Note(t, FALSE, fails)
           /\ IF AfterRevalidate(g.exists, g.err) = "error"
              THEN Finish(t, ErrorReply(g.err))
              ELSE Finish(t, createResp(clocal[t]))
    /\ UNCHANGED <<disks, attached, creq, pool, snapshots>>

(***************************************************************************)
(* DeleteVolume.                                                           *)
(***************************************************************************)
\* Entering a handler whose argument checks end in SplitZoneNameId:
\* code is "proceed" or the code returned at once.
EnterVolume(t, r, code, label) ==
    LET id == SplitZoneNameId(r.volumeID) IN
    /\ Begin(t, r)
    /\ IF code = "proceed"
       THEN /\ cpc' = [cpc EXCEPT ![t] = label]
            /\ cresp' = [cresp EXCEPT ![t] = NoCtrlResp]
            /\ clocal' = [clocal EXCEPT ![t] = Local(id.zone, id.name, <<>>, 0, {})]
       ELSE /\ cresp' = [cresp EXCEPT ![t] = ErrorReply(code)]
            /\ clocal' = [clocal EXCEPT ![t] = NoLocal]
            /\ UNCHANGED cpc
    /\ UNCHANGED <<disks, attached, pool, snapshots>>

DeleteVolumeEntry(r) ==
    IF Len(r.volumeID) = 0 THEN "InvalidArgument"
    ELSE IF ~SplitZoneNameId(r.volumeID).ok THEN "OK"
    ELSE "proceed"

\* A handler that reports a resource in use as any other cloud error.
AfterDeleteErrorInternal(err) ==
    IF err = "notFound" THEN "OK" ELSE "Internal"

\* A handler for which a resource that is not there is an error.
AfterDeleteErrorStrict(err) ==
    IF err = "resourceInUseByAnotherResource" THEN "FailedPrecondition"
    ELSE "Internal"

\* After an error of DeleteDisk, and of DeleteSnapshot.
AfterDeleteError(err) ==
    IF err = "resourceInUseByAnotherResource" THEN "FailedPrecondition"
    ELSE IF err = "notFound" THEN "OK"
    ELSE "Internal"

DeleteVolume(t) ==
    \E r \in Sent(pool) :
        /\ r.op = "DeleteVolume"
        /\ EnterVolume(t, r, DeleteVolumeEntry(r), "dv_delete")

\* DeleteDisk: the cloud refuses at once, or accepts the operation.
DeleteVolumeDelete(t) ==
    /\ cpc[t] = "dv_delete"
    /\ LET l == clocal[t]
           gone == ~DiskAt(disks, l.zone, l.name).exists
           used == InUse(attached, l.zone, l.name)
       IN \E err \in {"nil", "notFound", "resourceInUseByAnotherResource", "other"} :
              /\ err = "notFound" <=> (gone /\ err # "other")
              /\ err = "resourceInUseByAnotherResource" <=> (~gone /\ used /\ err # "other")
              /\ Note(t, TRUE, err = "other")
              /\ IF err = "nil" THEN Goto(t, "dv_wait")
                 ELSE Finish(t, ErrorReply(AfterDeleteError(err)))
    /\ UNCHANGED <<disks, attached, creq, pool, snapshots>>

\* WaitForOp on the delete: the disk goes, unless it is gone or in use by now.
DeleteVolumeWait(t) ==
    /\ cpc[t] = "dv_wait"
    /\ LET l == clocal[t]
           can == DiskAt(disks, l.zone, l.name).exists /\ ~InUse(attached, l.zone, l.name)
       IN \E fails \in BOOLEAN :
              /\ Note(t, FALSE, fails \/ ~can)
              /\ IF can /\ ~fails
                 THEN /\ disks' = [disks EXCEPT ![<<l.zone, l.name>>] = NoDisk]
                      /\ Finish(t, ErrorReply("OK"))
                 ELSE /\ UNCHANGED disks
                      /\ Finish(t, ErrorReply("Internal"))
    /\ UNCHANGED <<attached, creq, pool, snapshots>>

(***************************************************************************)
(* DeleteSnapshot.  The cloud keeps, for each snapshot name, whether the   *)
(* snapshot is there and whether another resource uses it.                 *)
(***************************************************************************)
NoSnapshot == [exists |-> FALSE, inUse |-> FALSE, status |-> ""]
Snapshot(inUse) == [exists |-> TRUE, inUse |-> inUse, status |-> "READY"]
SnapshotWith(status) == [Snapshot(FALSE) EXCEPT !.status = status]
SnapshotAt(snaps, name) == IF name \in DOMAIN snaps THEN snaps[name] ELSE NoSnapshot

DeleteSnapshotEntry(r) ==
    IF Len(r.snapshotID) = 0 THEN "InvalidArgument" ELSE "proceed"

DeleteSnapshot(t) ==
    \E r \in Sent(pool) :
        /\ r.op = "DeleteSnapshot"
        /\ Begin(t, r)
        /\ LET code == DeleteSnapshotEntry(r) IN
           IF code = "proceed"
           THEN /\ cpc' = [cpc EXCEPT ![t] = "ds_delete"]
                /\ cresp' = [cresp EXCEPT ![t] = NoCtrlResp]
                /\ clocal' = [clocal EXCEPT ![t] = Local(<<>>, r.snapshotID, <<>>, 0, {})]
           ELSE /\ cresp' = [cresp EXCEPT ![t] = ErrorReply(code)]
                /\ clocal' = [clocal EXCEPT ![t] = NoLocal]
                /\ UNCHANGED cpc
        /\ UNCHANGED <<disks, attached, pool, snapshots>>

\* The cloud's DeleteSnapshot: it refuses at once, or accepts the operation.
DeleteSnapshotDelete(t) ==
    /\ cpc[t] = "ds_delete"
    /\ LET snap == SnapshotAt(snapshots, clocal[t].name) IN
       \E err \in {"nil", "notFound", "resourceInUseByAnotherResource", "other"} :
           /\ err = "notFound" <=> (~snap.exists /\ err # "other")
           /\ err = "resourceInUseByAnotherResource" <=> (snap.inUse /\ err # "other")
           /\ Note(t, TRUE, err = "other")
           /\ IF err = "nil"
              THEN /\ Goto(t, "ds_wait")
                   /\ snapshots' = [snapshots EXCEPT ![clocal[t].name].status = "DELETING"]
              ELSE /\ Finish(t, ErrorReply(AfterDeleteError(err)))
                   /\ UNCHANGED snapshots
    /\ UNCHANGED <<disks, attached, creq, pool>>

\* WaitForGlobalOp on the delete: the snapshot goes, unless it is gone by now.
DeleteSnapshotWait(t) ==
    /\ cpc[t] = "ds_wait"
    /\ LET name == clocal[t].name
           can == SnapshotAt(snapshots, name).exists
       IN \E fails \in BOOLEAN :
              /\ Note(t, FALSE, fails \/ ~can)
              /\ IF can /\ ~fails
                 THEN /\ snapshots' = [snapshots EXCEPT ![name] = NoSnapshot]
                      /\ Finish(t, ErrorReply("OK"))
                 ELSE /\ UNCHANGED snapshots
                      /\ Finish(t, ErrorReply("Internal"))
    /\ UNCHANGED <<disks, attached, creq, pool>>

(***************************************************************************)
(* CreateSnapshot.  The cloud keeps the status of each snapshot.  Errors    *)
(* the handler passes on as it got them reach the caller as Unknown.       *)
(***************************************************************************)
CloudStatuses == {"CREATING", "UPLOADING", "READY", "FAILED", "DELETING"}

\* A mapping that knows the statuses of a snapshot being made only.
SnapshotStatusTypeOfNew(status) ==
    CASE status = "READY" -> "READY"
      [] status = "UPLOADING" -> "UPLOADING"
      [] status = "FAILED" -> "ERROR_UPLOADING"
      [] OTHER -> "UNKNOWN"

\* "switch snapshot.Status": the csi.SnapshotStatus_Type of a cloud status.
SnapshotStatusType(status) ==
    CASE status = "READY" -> "READY"
      [] status = "UPLOADING" -> "UPLOADING"
      [] status = "FAILED" -> "ERROR_UPLOADING"
      [] status = "DELETING" -> "READY"
      [] OTHER -> "UNKNOWN"

SnapshotReply(name, status) ==
    [ErrorReply("OK") EXCEPT !.snapshotID = name, !.status = SnapshotStatusType(status)]

CreateSnapshotEntry(r) ==
    LET id == SplitZoneNameId(r.sourceVolumeID) IN
    IF ~id.ok THEN "Unknown"
    ELSE IF id.zone # DriverZone THEN "Unknown"
    ELSE "proceed"

\* A handler for which a snapshot that is there already is an error.
AfterCreateSnapshotErrorFatal(err) == "Internal"

\* After an error of the cloud's CreateSnapshot.
AfterCreateSnapshotError(err) ==
    IF err = "alreadyExists" THEN "reuse" ELSE "Internal"

CreateSnapshot(t) ==
    \E r \in Sent(pool) :
        /\ r.op = "CreateSnapshot"
        /\ Begin(t, r)
        /\ LET code == CreateSnapshotEntry(r)
               id == SplitZoneNameId(r.sourceVolumeID)
           IN IF code = "proceed"
              THEN /\ cpc' = [cpc EXCEPT ![t] = "cs_create"]
                   /\ cresp' = [cresp EXCEPT ![t] = NoCtrlResp]
                   /\ clocal' = [clocal EXCEPT ![t] = Local(id.zone, id.name, <<>>, 0, {})]
              ELSE /\ cresp' = [cresp EXCEPT ![t] = ErrorReply(code)]
                   /\ clocal' = [clocal EXCEPT ![t] = NoLocal]
                   /\ UNCHANGED cpc
        /\ UNCHANGED <<disks, attached, pool, snapshots>>

\* The cloud's CreateSnapshot: it refuses a name that is taken and a disk
\* that is not there, or fails otherwise, or makes the snapshot, which then
\* has the status the cloud gives it.
CreateSnapshotCreate(t) ==
    /\ cpc[t] = "cs_create"
    /\ LET name == creq[t].name
           taken == SnapshotAt(snapshots, name).exists
           there == DiskAt(disks, clocal[t].zone, clocal[t].name).exists
       IN \E err \in {"nil", "alreadyExists", "other"} :
              /\ err = "alreadyExists" <=> (taken /\ err # "other")
              /\ err = "nil" => there
              /\ Note(t, TRUE, err = "other")
              /\ IF err = "nil"
                 THEN /\ \E status \in CloudStatuses \ {"DELETING"} :
                            snapshots' = [snapshots EXCEPT ![name] = SnapshotWith(status)]
                      /\ Goto(t, "cs_get")
                 ELSE /\ UNCHANGED snapshots
                      /\ IF AfterCreateSnapshotError(err) = "reuse"
                         THEN Goto(t, "cs_get")
                         ELSE Finish(t, ErrorReply("Internal"))
    /\ UNCHANGED <<disks, attached, creq, pool>>

\* WaitAndGetSnapshot, and time.Parse of the creation time it gives.
CreateSnapshotGet(t) ==
    /\ cpc[t] = "cs_get"
    /\ LET name == creq[t].name
           snap == SnapshotAt(snapshots, name)
       IN \E fails \in BOOLEAN :
              /\ Note(t, FALSE, fails \/ ~snap.exists)
              /\ IF snap.exists /\ ~fails
                 THEN Finish(t, SnapshotReply(name, snap.status))
                 ELSE Finish(t, ErrorReply("Internal"))
    /\ UNCHANGED <<disks, attached, creq, pool, snapshots>>

NextCreateSnapshot ==
    \E t \in CtrlTasks :
        \/ CreateSnapshot(t)
        \/ CreateSnapshotCreate(t)
        \/ CreateSnapshotGet(t)

(***************************************************************************)
(* ControllerPublishVolume.                                                *)
(***************************************************************************)
\* A check for which every disk is attached.
diskIsAttachedAlways(volumeName, instanceDisks) == TRUE

diskIsAttached(volumeName, instanceDisks) ==
    \E disk \in instanceDisks : disk.deviceName = volumeName

\* A check that takes an attached disk whatever its mode.
diskIsAttachedAnyMode(volumeName, instanceDisks, readWrite) ==
    [attached |-> \E disk \in instanceDisks : disk.deviceName = volumeName, err |-> FALSE]

\* [attached, err]
diskIsAttachedAndCompatible(volumeName, instanceDisks, readWrite) ==
    IF \E disk \in instanceDisks : disk.deviceName = volumeName
    THEN LET disk == CHOOSE d \in instanceDisks : d.deviceName = volumeName IN
         [attached |-> TRUE, err |-> disk.mode # readWrite]
    ELSE [attached |-> FALSE, err |-> FALSE]

ControllerPublishVolumeEntry(r) ==
    IF Len(r.volumeID) = 0 THEN "InvalidArgument"
    ELSE IF r.nodeID = "" THEN "InvalidArgument"
    ELSE IF ~r.hasCapability THEN "InvalidArgument"
    ELSE IF ~SplitZoneNameId(r.volumeID).ok THEN "NotFound"
    ELSE "proceed"

ControllerPublishVolume(t) ==
    \E r \in Sent(pool) :
        /\ r.op = "ControllerPublishVolume"
        /\ EnterVolume(t, r, ControllerPublishVolumeEntry(r), "cp_getdisk")

\* GetDiskOrError: the error is NotFound or Internal, already a status.
GetDiskStep(t, label) ==
    \E fails \in BOOLEAN :
        /\ Note(t, FALSE, fails)
        /\ IF fails THEN Finish(t, ErrorReply("Internal"))
           ELSE IF ~DiskAt(disks, clocal[t].zone, clocal[t].name).exists
                THEN Finish(t, ErrorReply("NotFound"))
           ELSE Goto(t, label)
        /\ UNCHANGED <<disks, attached, creq, pool, snapshots>>

ControllerPublishVolumeGetDisk(t) ==
    /\ cpc[t] = "cp_getdisk"
    /\ GetDiskStep(t, "cp_getinst")

\* GetInstanceOrError, then diskIsAttachedAndCompatible on what it returned.
ControllerPublishVolumeGetInstance(t) ==
    /\ cpc[t] = "cp_getinst"
    /\ LET l == clocal[t]
           found == <<l.zone, creq[t].nodeID>> \in DOMAIN attached
           instDisks == InstanceDisks(attached, l.zone, creq[t].nodeID)
           readWrite == IF creq[t].readOnly THEN "READ_ONLY" ELSE "READ_WRITE"
           chk == diskIsAttachedAndCompatible(l.name, instDisks, readWrite)
       IN \E fails \in BOOLEAN :
              /\ Note(t, FALSE, fails)
              /\ IF fails THEN Finish(t, ErrorReply("Internal"))
                 ELSE IF ~found THEN Finish(t, ErrorReply("NotFound"))
                 ELSE IF chk.err THEN Finish(t, ErrorReply("AlreadyExists"))
                 ELSE IF chk.attached THEN Finish(t, ErrorReply("OK"))
                 ELSE Goto(t, "cp_attach")
    /\ UNCHANGED <<disks, attached, creq, pool, snapshots>>

\* A handler that attaches every disk read-write.
attachedDiskReadWrite(name, readOnly) == AttachedDisk(name, "READ_WRITE")

\* The attachment ControllerPublishVolume asks for.
attachedDiskV1(name, readOnly) ==
    LET readWrite == IF readOnly THEN "READ_ONLY" ELSE "READ_WRITE" IN
    AttachedDisk(name, readWrite)

\* A handler that sends the attach again when the cloud fails it.
ControllerPublishVolumeAttachAgain(t) ==
    /\ cpc[t] = "cp_attach"
    /\ \E fails \in BOOLEAN :
           /\ Note(t, TRUE, fails)
           /\ IF fails THEN Goto(t, "cp_attach") ELSE Goto(t, "cp_wait")
    /\ UNCHANGED <<disks, attached, creq, pool, snapshots>>

ControllerPublishVolumeAttach(t) ==
    /\ cpc[t] = "cp_attach"
    /\ \E fails \in BOOLEAN :
           /\ Note(t, TRUE, fails)
           /\ IF fails THEN Finish(t, ErrorReply("Internal")) ELSE Goto(t, "cp_wait")
    /\ UNCHANGED <<disks, attached, creq, pool, snapshots>>

\* WaitForOp on the attach: the disk is attached under its name, unless the
\* disk is gone or the instance has a device of that name by now.
ControllerPublishVolumeWait(t) ==
    /\ cpc[t] = "cp_wait"
    /\ LET l == clocal[t]
           inst == <<l.zone, creq[t].nodeID>>
           can == /\ DiskAt(disks, l.zone, l.name).exists
                  /\ ~diskIsAttached(l.name, attached[inst])
       IN \E fails \in BOOLEAN :
              /\ Note(t, FALSE, fails \/ ~can)
              /\ IF can /\ ~fails
                 THEN /\ attached' = [attached EXCEPT ![inst] =
                                         @ \cup {attachedDiskV1(l.name, creq[t].readOnly)}]
                      /\ Goto(t, "cp_waitattach")
                 ELSE /\ UNCHANGED attached
                      /\ Finish(t, ErrorReply("Internal"))
    /\ UNCHANGED <<disks, creq, pool, snapshots>>

\* WaitForAttach: polls the instance until the disk shows as attached.
ControllerPublishVolumeWaitForAttach(t) ==
    /\ cpc[t] = "cp_waitattach"
    /\ LET l == clocal[t]
           seen == diskIsAttached(l.name, attached[<<l.zone, creq[t].nodeID>>])
       IN \E fails \in BOOLEAN :
              /\ Note(t, FALSE, fails \/ ~seen)
              /\ IF seen /\ ~fails THEN Finish(t, ErrorReply("OK"))
                 ELSE Finish(t, ErrorReply("Internal"))
    /\ UNCHANGED <<disks, attached, creq, pool, snapshots>>

(***************************************************************************)
(* ValidateVolumeCapabilities.                                             *)
(***************************************************************************)
ValidateVolumeCapabilitiesEntry(r) ==
    IF Len(r.accessModes) = 0 THEN "InvalidArgument"
    ELSE IF Len(r.volumeID) = 0 THEN "InvalidArgument"
    ELSE IF ~SplitZoneNameId(r.volumeID).ok THEN "NotFound"
    ELSE "proceed"

\* A check of the modes that passes every mode.
UnsupportedModesNone(modes) == {}

\* The requested modes that are not among the driver's.
UnsupportedModes(modes) == {i \in 1..Len(modes) : modes[i] \notin DriverModes}

\* The loop over the accessible topology: the first key the iteration meets
\* decides, and a map of several keys may be iterated from any of them.
TopologyReplies(top, z) ==
    LET filled == {i \in 1..Len(top) : top[i].pairs # {}} IN
    IF filled = {} THEN {ValidateReply("OK", TRUE, FALSE)}
    ELSE LET first == CHOOSE i \in filled : \A j \in filled : i <= j IN
         {IF kv[1] = TopologyKeyZone
          THEN IF kv[2] = z THEN ValidateReply("OK", TRUE, FALSE)
               ELSE ValidateReply("OK", FALSE, TRUE)
          ELSE ErrorReply("InvalidArgument") : kv \in top[first].pairs}

\* What the handler may return once the disk is found.
ValidateReplies(r, z) ==
    IF UnsupportedModes(r.accessModes) # {}
    THEN {ValidateReply("InvalidArgument", FALSE, TRUE)}
    ELSE TopologyReplies(r.accessibleTopology, z)

ValidateVolumeCapabilities(t) ==
    \E r \in Sent(pool) :
        /\ r.op = "ValidateVolumeCapabilities"
        /\ EnterVolume(t, r, ValidateVolumeCapabilitiesEntry(r), "vv_getdisk")

\* GetDiskOrError, and the two loops on what the request carries.
ValidateVolumeCapabilitiesGetDisk(t) ==
    /\ cpc[t] = "vv_getdisk"
    /\ \E fails \in BOOLEAN :
           /\ Note(t, FALSE, fails)
           /\ IF fails THEN Finish(t, ErrorReply("Internal"))
              ELSE IF ~DiskAt(disks, clocal[t].zone, clocal[t].name).exists
              THEN Finish(t, ErrorReply("NotFound"))
              ELSE \E reply \in ValidateReplies(creq[t], clocal[t].zone) : Finish(t, reply)
    /\ UNCHANGED <<disks, attached, creq, pool, snapshots>>

NextValidate ==
    \E t \in CtrlTasks :
        \/ ValidateVolumeCapabilities(t)
        \/ ValidateVolumeCapabilitiesGetDisk(t)

(***************************************************************************)
(* ControllerUnpublishVolume.  An error it passes on as it got it, when    *)
(* that is no status error, reaches the caller with the code Unknown.      *)
(***************************************************************************)
ControllerUnpublishVolumeEntry(r) ==
    IF Len(r.volumeID) = 0 THEN "InvalidArgument"
    ELSE IF r.nodeID = "" THEN "InvalidArgument"
    ELSE IF ~SplitZoneNameId(r.volumeID).ok THEN "Unknown"
    ELSE "proceed"

ControllerUnpublishVolume(t) ==
    \E r \in Sent(pool) :
        /\ r.op = "ControllerUnpublishVolume"
        /\ EnterVolume(t, r, ControllerUnpublishVolumeEntry(r), "cu_getdisk")

ControllerUnpublishVolumeGetDisk(t) ==
    /\ cpc[t] = "cu_getdisk"
    /\ GetDiskStep(t, "cu_getinst")

\* GetInstanceOrError, then diskIsAttached on what it returned.
ControllerUnpublishVolumeGetInstance(t) ==
    /\ cpc[t] = "cu_getinst"
    /\ LET l == clocal[t]
           found == <<l.zone, creq[t].nodeID>> \in DOMAIN attached
           instDisks == InstanceDisks(attached, l.zone, creq[t].nodeID)
       IN \E fails \in BOOLEAN :
              /\ Note(t, FALSE, fails)
              /\ IF fails \/ ~found THEN Finish(t, ErrorReply("Unknown"))
                 ELSE IF ~diskIsAttached(l.name, instDisks) THEN Finish(t, ErrorReply("OK"))
                 ELSE Goto(t, "cu_detach")
    /\ UNCHANGED <<disks, attached, creq, pool, snapshots>>

ControllerUnpublishVolumeDetach(t) ==
    /\ cpc[t] = "cu_detach"
    /\ \E fails \in BOOLEAN :
           /\ Note(t, TRUE, fails)
           /\ IF fails THEN Finish(t, ErrorReply("Internal")) ELSE Goto(t, "cu_wait")
    /\ UNCHANGED <<disks, attached, creq, pool, snapshots>>

\* WaitForOp on the detach: the device of that name leaves the instance.
ControllerUnpublishVolumeWait(t) ==
    /\ cpc[t] = "cu_wait"
    /\ LET l == clocal[t]
           inst == <<l.zone, creq[t].nodeID>>
       IN \E fails \in BOOLEAN :
              /\ Note(t, FALSE, fails)
              /\ IF ~fails
                 THEN /\ attached' = [attached EXCEPT ![inst] =
                                         {d \in @ : d.deviceName # l.name}]
                      /\ Finish(t, ErrorReply("OK"))
                 ELSE /\ UNCHANGED attached
                      /\ Finish(t, ErrorReply("Internal"))
    /\ UNCHANGED <<disks, creq, pool, snapshots>>

(***************************************************************************)
(* NodeGetInfo.  The metadata service gives the machine type and the zone  *)
(* of the node, the same at every call; they are kept with the callers in  *)
(* nodePool.                                                               *)
(***************************************************************************)
volumeLimitSmall == 15
volumeLimitBig == 127

\* strings.HasPrefix
HasPrefix(s, prefix) ==
    Len(s) >= Len(prefix) /\ SubSeq(s, 1, Len(prefix)) = prefix

\* Limits that are big for the n1 machine types alone.
GetVolumeLimitsOfN1(machineType) ==
    IF HasPrefix(machineType, <<"n", "1", "-">>)
    THEN volumeLimitBig
    ELSE volumeLimitSmall

GetVolumeLimits(machineType) ==
    IF HasPrefix(machineType, <<"n", "1", "-">>)
          \/ HasPrefix(machineType, <<"c", "u", "s", "t", "o", "m", "-">>)
    THEN volumeLimitBig
    ELSE volumeLimitSmall

\* Machine types: n1 and custom ones, others, and ones that have the two
\* prefixes in part, elsewhere than at the start, or in capitals.
MachineTypes ==
    {<<"n", "1", "-", "s", "t", "d">>, <<"n", "1", "-">>,
     <<"c", "u", "s", "t", "o", "m", "-", "2">>, <<"c", "u", "s", "t", "o", "m", "-">>,
     <<"f", "1", "-", "m">>, <<"g", "1", "-", "s">>, <<"n", "2", "-", "s">>,
     <<"n", "1">>, <<"c", "u", "s", "t", "o", "m">>, <<"x", "n", "1", "-">>,
     <<"N", "1", "-", "s">>, <<>>}

NodeGetInfoReply(volumeLimits, zone) ==
    [Reply("OK", 0, FALSE) EXCEPT !.maxVolumesPerNode = volumeLimits,
                                  !.accessibleTopology = {<<TopologyKeyZone, zone>>}]

NodeGetInfo(t) ==
    /\ pc[t] = "idle"
    /\ resp' = [resp EXCEPT ![t] =
                   ReplyOf("NodeGetInfo",
                           NodeGetInfoReply(GetVolumeLimits(nodePool.machineType),
                                            nodePool.zone))]
    /\ UNCHANGED <<volumeLocks, pc, req, pathType, mounts, nodePool>>

(***************************************************************************)
(* The specifications.                                                     *)
(***************************************************************************)
\* The node's callers: a named set of requests, or ("with") one request that
\* every call of the behaviour carries; and the staging and target path of
\* the volume as the callers find them at the start.
AbsentPath == [type |-> "absent", mount |-> NoMount]
NodeCallersOf(name, r) ==
    [name |-> name, request |-> r, staging |-> AbsentPath, target |-> AbsentPath,
     machineType |-> <<>>, zone |-> DriverZone]

\* No FormatAndMount call against the CSI proxy, no FakeBlockingMounter.
NoProxy == [pc |-> "none"]
NoBlocking == [pc |-> "none"]

\* The node service at its start: no call in flight, the node's paths and
\* mounts as the node has them.
InitNodeState(callers, pt, mt) ==
    /\ nodePool = callers
    /\ volumeLocks = {}
    /\ pc = [t \in Tasks |-> "idle"]
    /\ req = [t \in Tasks |-> NoReq]
    /\ resp = [t \in Tasks |-> NoResp]
    /\ pathType = pt
    /\ mounts = mt

\* The node service with the mounter of its handlers, which is neither the
\* CSI proxy mounter nor the blocking one.
InitNodeWith(callers, pt, mt) ==
    /\ InitNodeState(callers, pt, mt)
    /\ proxy = NoProxy
    /\ blocking = NoBlocking

InitNode(requests) ==
    InitNodeWith(NodeCallersOf(requests, NoReq),
                 [p \in Paths |-> "absent"], [p \in Paths |-> NoMount])

InitControllerWith(requests, snaps) ==
    /\ snapshots = snaps
    /\ disks = [k \in DiskKeys |-> NoDisk]
    /\ attached = [i \in Instances |-> {}]
    /\ cpc = [t \in CtrlTasks |-> "idle"]
    /\ creq = [t \in CtrlTasks |-> NoCtrlReq]
    /\ cresp = [t \in CtrlTasks |-> NoCtrlResp]
    /\ clocal = [t \in CtrlTasks |-> NoLocal]
    /\ hist = [t \in CtrlTasks |-> NoHist]
    /\ pool = requests

InitController(requests) ==
    InitControllerWith(requests, [n \in SnapshotNames |-> NoSnapshot])

NextNode ==
    \E t \in Tasks :
        \/ NodePublishVolume(t)
        \/ NodePublishVolumeReturn(t)
        \/ NodeUnpublishVolume(t)
        \/ NodeUnpublishVolumeReturn(t)
        \/ NodeStageVolume(t)
        \/ NodeStageVolumeReturn(t)
        \/ NodeUnstageVolume(t)
        \/ NodeUnstageVolumeReturn(t)
        \/ NodeExpandVolume(t)
        \/ NodeExpandVolumeReturn(t)

NextCreateVolume ==
    \E t \in CtrlTasks :
        \/ CreateVolume(t)
        \/ CreateVolumeGet(t)
        \/ CreateVolumeInsert(t)
        \/ CreateVolumeWait(t)
        \/ CreateVolumeRevalidate(t)

NextDeleteVolume ==
    \E t \in CtrlTasks :
        \/ DeleteVolume(t)
        \/ DeleteVolumeDelete(t)
        \/ DeleteVolumeWait(t)

NextDeleteSnapshot ==
    \E t \in CtrlTasks :
        \/ DeleteSnapshot(t)
        \/ DeleteSnapshotDelete(t)
        \/ DeleteSnapshotWait(t)

NextPublishVolume ==
    \E t \in CtrlTasks :
        \/ ControllerPublishVolume(t)
        \/ ControllerPublishVolumeGetDisk(t)
        \/ ControllerPublishVolumeGetInstance(t)
        \/ ControllerPublishVolumeAttach(t)
        \/ ControllerPublishVolumeWait(t)
        \/ ControllerPublishVolumeWaitForAttach(t)

NextUnpublishVolume ==
    \E t \in CtrlTasks :
        \/ ControllerUnpublishVolume(t)
        \/ ControllerUnpublishVolumeGetDisk(t)
        \/ ControllerUnpublishVolumeGetInstance(t)
        \/ ControllerUnpublishVolumeDetach(t)
        \/ ControllerUnpublishVolumeWait(t)

NextVolume == NextDeleteVolume \/ NextPublishVolume \/ NextUnpublishVolume

\* The node service under concurrent callers.
Init == InitNode("contended") /\ InitController(NoCallers)
Next == NextNode /\ UNCHANGED <<ctrlVars, mounterVars>>
Spec == Init /\ [][Next]_vars

\* CreateVolume under concurrent callers.
InitCreate == InitNode("none") /\ InitController(Callers("create", NoRange))
NextCreate == NextCreateVolume /\ UNCHANGED <<nodeVars, mounterVars>>
SpecCreate == InitCreate /\ [][NextCreate]_vars

\* The controller service under concurrent callers.
InitCtrl == InitNode("none") /\ InitController(Callers("volume", NoRange))
NextCtrl == (NextCreateVolume \/ NextVolume) /\ UNCHANGED <<nodeVars, mounterVars>>
SpecCtrl == InitCtrl /\ [][NextCtrl]_vars

\* Deleting volumes and snapshots, the cloud starting with any snapshots.
InitDelete ==
    /\ InitNode("none")
    /\ \E snaps \in [SnapshotNames -> {NoSnapshot, Snapshot(FALSE), Snapshot(TRUE)}] :
           InitControllerWith(Callers("delete", NoRange), snaps)
NextDelete ==
    \/ NextCreateVolume /\ UNCHANGED <<nodeVars, mounterVars>>
    \/ NextDeleteVolume /\ UNCHANGED <<nodeVars, mounterVars>>
    \/ NextPublishVolume /\ UNCHANGED <<nodeVars, mounterVars>>
    \/ NextDeleteSnapshot /\ UNCHANGED <<nodeVars, mounterVars>>
SpecDelete == InitDelete /\ [][NextDelete]_vars

\* ValidateVolumeCapabilities, any one request of it, beside CreateVolume of
\* the disk.
InitValidate ==
    InitNode("none") /\ \E r \in ValidateRequests : InitController(CallersWith(r))
NextValidateVolume ==
    \/ NextCreateVolume /\ UNCHANGED <<nodeVars, mounterVars>>
    \/ NextValidate /\ UNCHANGED <<nodeVars, mounterVars>>
SpecValidate == InitValidate /\ [][NextValidateVolume]_vars

\* Creating and deleting the snapshot, the cloud starting with none or with
\* the snapshot in any status.
InitSnapshot ==
    /\ InitNode("none")
    /\ \E snaps \in [SnapshotNames -> {NoSnapshot} \cup {SnapshotWith(st) : st \in CloudStatuses}] :
           InitControllerWith(Callers("snapshot", NoRange), snaps)
NextSnapshot ==
    \/ NextCreateVolume /\ UNCHANGED <<nodeVars, mounterVars>>
    \/ NextCreateSnapshot /\ UNCHANGED <<nodeVars, mounterVars>>
    \/ NextDeleteSnapshot /\ UNCHANGED <<nodeVars, mounterVars>>
SpecSnapshot == InitSnapshot /\ [][NextSnapshot]_vars

\* CreateVolume with any one choice of parameters and accessibility
\* requirements.
InitArguments ==
    InitNode("none") /\ \E callers \in RequestArguments : InitController(callers)
SpecArguments == InitArguments /\ [][NextCreate]_vars

\* CreateVolume with any one CapacityRange.
InitCap ==
    InitNode("none") /\ \E range \in CapacityRanges : InitController(Callers("capacity", range))
SpecCap == InitCap /\ [][NextCreate]_vars

\* The node service with one request, sent again and again by both callers,
\* on a node whose staging and target path of the volume are as earlier
\* calls of NodeStageVolume and NodePublishVolume leave them.
NoPaths == [p \in Paths |-> "absent"]
NoMounts == [p \in Paths |-> NoMount]
PathState(out, p) == [type |-> out.pathType[p], mount |-> out.mounts[p]]
StagingStates ==
    {AbsentPath}
    \cup {PathState(NodeStageVolumeBody(r, NoPaths, NoMounts, "none"), StagingOf(GoodID)) :
             r \in {q \in StageRequests : q.volumeID = GoodID /\ StageValid(q)}}
TargetStates ==
    {AbsentPath}
    \cup {PathState(NodePublishVolumeBody(r, NoPaths, NoMounts, f), TargetOf(GoodID)) :
             r \in {q \in PublishRequests : q.volumeID = GoodID /\ PublishValid(q)},
             f \in {"none", "mountCheck"}}
InitMount ==
    /\ \E r \in NodeRequests, s \in StagingStates, g \in TargetStates :
           InitNodeWith([NodeCallersOf("with", r) EXCEPT !.staging = s, !.target = g],
                        [NoPaths EXCEPT ![StagingOf(GoodID)] = s.type,
                                        ![TargetOf(GoodID)] = g.type],
                        [NoMounts EXCEPT ![StagingOf(GoodID)] = s.mount,
                                         ![TargetOf(GoodID)] = g.mount])
    /\ InitController(NoCallers)
SpecMount == InitMount /\ [][Next]_vars

\* The node service on a node of some machine type in some zone, its callers
\* asking for the node's info between the calls of a volume's life.
InitInfo ==
    /\ \E m \in MachineTypes, z \in Zones :
           InitNodeWith([NodeCallersOf("lifecycle", NoReq) EXCEPT !.machineType = m,
                                                                  !.zone = z],
                        NoPaths, NoMounts)
    /\ InitController(NoCallers)
NextInfo ==
    \/ NextNode /\ UNCHANGED <<ctrlVars, mounterVars>>
    \/ (\E t \in Tasks : NodeGetInfo(t)) /\ UNCHANGED <<ctrlVars, mounterVars>>
SpecInfo == InitInfo /\ [][NextInfo]_vars

\* The node service, each handler body returning in the end: every call of
\* the mount executor returns.
NodeReturn(t) ==
    /\ \/ NodePublishVolumeReturn(t)
       \/ NodeUnpublishVolumeReturn(t)
       \/ NodeStageVolumeReturn(t)
       \/ NodeUnstageVolumeReturn(t)
       \/ NodeExpandVolumeReturn(t)
    /\ UNCHANGED <<ctrlVars, mounterVars>>
InitReturning == InitNode("retried") /\ InitController(NoCallers)
SpecReturning ==
    InitReturning /\ [][Next]_vars /\ \A t \in Tasks : WF_vars(NodeReturn(t))

(***************************************************************************)
(* Properties of the lock registry and of the node handlers under it.      *)
(***************************************************************************)
LockedIDs == {GoodID, BadID}

\* The tasks inside a locking handler for volume v.
Holders(v) ==
    {t \in Tasks : pc[t] = "running" /\ req[t].op \in LockingOps /\ req[t].volumeID = v}

\* t enters a locking handler's body in this step.
Acquires(t) == pc[t] = "idle" /\ pc'[t] = "running" /\ req'[t].op \in LockingOps

\* t returns from a locking handler's body in this step.
Releases(t) == pc[t] = "running" /\ pc'[t] = "idle" /\ req[t].op \in LockingOps

\* t is answered Aborted in this step.
Rejected(t) == resp'[t] # resp[t] /\ resp'[t].code = "Aborted"

\* C1: the registry grants a volume ID to at most one holder at a time: no two
\* tasks are inside locking handlers for one ID, an ID with a holder is in the
\* registry, TryAcquire succeeds exactly on an ID not in it, and a second
\* TryAcquire of an ID just granted fails.
C1_OneHolder ==
    \A v \in LockedIDs :
        /\ Cardinality(Holders(v)) <= 1
        /\ Holders(v) # {} => v \in volumeLocks
        /\ LET first == TryAcquire(volumeLocks, v) IN
           /\ first.acquired <=> v \notin volumeLocks
           /\ ~TryAcquire(first.locks, v).acquired

C1_Witness ==
    \E t, u \in Tasks :
        /\ t \in Holders(GoodID)
        /\ pc[u] = "idle"
        /\ resp[u].code = "Aborted" /\ resp[u].volumeID = GoodID

\* C2: at every step (each state has one), a call of a locking node handler
\* with its required fields would be answered Aborted exactly if a task is
\* inside a locking handler for the same volume ID; a step that answers
\* Aborted names an ID another task holds, calls no mount executor and leaves
\* paths, mount table and locks as they are; a task is let in only if no
\* other holds its ID, whatever IDs the others hold.
C2_AbortedIffHeld ==
    [][/\ \A v \in LockedIDs :
              EntryCode(TRUE, TryAcquire(volumeLocks, v).acquired) = "Aborted"
                  <=> Holders(v) # {}
       /\ \A t \in Tasks :
              /\ Rejected(t) =>
                     /\ resp'[t].op \in LockingOps
                     /\ Holders(resp'[t].volumeID) \ {t} # {}
                     /\ ~resp'[t].mountCalls
                     /\ pathType' = pathType /\ mounts' = mounts
                     /\ volumeLocks' = volumeLocks
              /\ Acquires(t) => Holders(req'[t].volumeID) = {}]_vars

C2_Witness ==
    \E t, u \in Tasks :
        /\ pc[t] = "idle" /\ resp[t].code = "Aborted"
        /\ resp[t].op = "NodeUnstageVolume"
        /\ u \in Holders(resp[t].volumeID)
        /\ req[u].op = "NodePublishVolume"
        /\ mounts[StagingOf(GoodID)].mounted

\* C3: a locking node handler that returns, with whatever code, leaves the
\* lock of its volume ID free; a held ID always has a task inside a handler;
\* and when every handler body returns, a held ID becomes free again, so a
\* retry is let in.
C3_ReleasedOnReturn ==
    /\ [][\A t \in Tasks :
             Releases(t) => /\ req[t].volumeID \notin volumeLocks'
                            /\ resp'[t].code \in {"OK", "InvalidArgument", "Internal"}]_vars
    /\ [](\A v \in volumeLocks : Holders(v) # {})
    /\ \A v \in LockedIDs : (v \in volumeLocks) ~> (v \notin volumeLocks)

C3_Witness ==
    \E t \in Tasks :
        /\ pc[t] = "idle"
        /\ resp[t].op \in LockingOps
        /\ resp[t].code = "Internal" /\ resp[t].mountCalls
        /\ volumeLocks = {}

\* C6: NodeExpandVolume is never inside its body while another task is inside
\* a node handler for the same volume ID.
C6_ExpandSerialized ==
    \A t, u \in Tasks :
        (t # u /\ Running(t, "NodeExpandVolume") /\ pc[u] = "running")
            => req[u].volumeID # req[t].volumeID

(***************************************************************************)
(* Properties of the controller handlers.                                  *)
(***************************************************************************)
CreateLabels == {"cv_get", "cv_insert", "cv_wait", "cv_reget"}
VolumeLabels == {"dv_delete", "dv_wait", "cp_getdisk", "cp_getinst", "cp_attach",
                 "cp_wait", "cp_waitattach", "cu_getdisk", "cu_getinst", "cu_detach",
                 "cu_wait"}

\* C4: no two tasks are between the cloud calls of CreateVolume for one
\* name at the same time.
C4_CreateSerialized ==
    \A t, u \in CtrlTasks :
        (t # u /\ cpc[t] \in CreateLabels /\ cpc[u] \in CreateLabels)
            => creq[t].name # creq[u].name

\* C5: no two tasks are between the cloud calls of DeleteVolume,
\* ControllerPublishVolume or ControllerUnpublishVolume for one volume ID at
\* the same time.
C5_VolumeSerialized ==
    \A t, u \in CtrlTasks :
        (t # u /\ cpc[t] \in VolumeLabels /\ cpc[u] \in VolumeLabels)
            => creq[t].volumeID # creq[u].volumeID

\* The latest calls of t and u are CreateVolume for the same name, zone, type
\* and capacity range, past the argument checks.
SameVolume(t, u) ==
    /\ Called(t, "CreateVolume") /\ Called(u, "CreateVolume")
    /\ clocal[t] # NoLocal /\ clocal[u] # NoLocal
    /\ creq[t].name = creq[u].name
    /\ clocal[t].zone = clocal[u].zone
    /\ clocal[t].diskType = clocal[u].diskType
    /\ creq[t].capacityRange = creq[u].capacityRange

\* The disk the latest CreateVolume of t is about.
DiskOf(t) == DiskAt(disks, clocal[t].zone, clocal[t].name)
FitsDiskOf(t) ==
    DiskCompatible(DiskOf(t), clocal[t].diskType, creq[t].capacityRange.required,
                   creq[t].capacityRange.limit)

C9_IncompatibleDisk ==
    [][\A t \in CtrlTasks :
          (/\ cpc[t] = "cv_get" /\ cpc'[t] # "cv_get"
           /\ DiskOf(t).exists /\ ~FitsDiskOf(t)
           /\ ~hist'[t].faulted)
          => /\ cpc'[t] = "idle"
             /\ cresp'[t].code = "AlreadyExists"
             /\ hist'[t].issued = 0
             /\ disks' = disks /\ attached' = attached]_vars

C9_Witness ==
    \E t \in CtrlTasks :
        /\ Returned(t, "CreateVolume")
        /\ cresp[t].code = "AlreadyExists"
        /\ hist[t].calls = 1 /\ hist[t].issued = 0 /\ ~hist[t].faulted
        /\ DiskOf(t).exists /\ DiskOf(t).type # clocal[t].diskType

\* The capacity resolution as specified: [ok, bytes].
Resolve(range) ==
    LET FiveGiBBytes == 5 * GiB
        rSet == range.required > 0
        lSet == range.limit > 0
    IN IF ~range.present THEN [ok |-> TRUE, bytes |-> FiveGiBBytes]
       ELSE IF rSet /\ lSet /\ range.limit < range.required THEN [ok |-> FALSE, bytes |-> 0]
       ELSE IF lSet /\ range.limit < FiveGiBBytes THEN [ok |-> FALSE, bytes |-> 0]
       ELSE LET wanted == IF rSet THEN range.required ELSE FiveGiBBytes IN
            [ok |-> TRUE, bytes |-> IF wanted < FiveGiBBytes THEN FiveGiBBytes ELSE wanted]

\* C10: for every CapacityRange getRequestCapacity gives what the specified
\* resolution gives; a capacity it gives is at least 5 GiB, at least the
\* required bytes when set and at most the limit when set, and is the capacity
\* CreateVolume works with and returns; when it fails CreateVolume has
\* returned InvalidArgument without a cloud call.
C10_CapacityResolution ==
    \A t \in CtrlTasks :
        Called(t, "CreateVolume") =>
            LET range == creq[t].capacityRange
                want == Resolve(range)
                got == getRequestCapacity(range)
            IN /\ got = want
               /\ got.ok =>
                     /\ got.bytes >= 5 * GiB
                     /\ (range.present /\ range.required > 0) => got.bytes >= range.required
                     /\ (range.present /\ range.limit > 0) => got.bytes <= range.limit
                     /\ clocal[t].capBytes = got.bytes
                     /\ cresp[t].code = "OK" => cresp[t].capacityBytes = got.bytes
               /\ ~want.ok =>
                     /\ AtIdle(t)
                     /\ cresp[t].code = "InvalidArgument"
                     /\ hist[t].calls = 0

C10_Witness ==
    \E t \in CtrlTasks :
        /\ Called(t, "CreateVolume")
        /\ creq[t].capacityRange.present
        /\ creq[t].capacityRange.required = 0
        /\ creq[t].capacityRange.limit > 0
        /\ creq[t].capacityRange.limit < 5 * GiB
        /\ cresp[t].code = "InvalidArgument"
        /\ hist[t].calls = 0

\* C11: DeleteVolume is lenient and idempotent.  An identifier that is set
\* but malformed is answered with success at once, no cloud call made; a
\* delete request for a disk that is not there is answered with success,
\* the disks as before; and whenever DeleteVolume returns success for a
\* well-formed identifier the disk is absent then, so that a repeated
\* DeleteVolume finds it absent and succeeds again.
C11_DeleteLenient ==
    [][\A t \in CtrlTasks :
          /\ (/\ AtIdle(t) /\ creq'[t] # creq[t]
              /\ creq'[t].op = "DeleteVolume"
              /\ Len(creq'[t].volumeID) > 0
              /\ ~SplitZoneNameId(creq'[t].volumeID).ok)
             => /\ cpc'[t] = "idle"
                /\ cresp'[t].code = "OK"
                /\ hist'[t].calls = 0
                /\ disks' = disks /\ attached' = attached
          /\ (/\ cpc[t] = "dv_delete" /\ cpc'[t] # "dv_delete"
              /\ ~DiskAt(disks, clocal[t].zone, clocal[t].name).exists
              /\ ~hist'[t].faulted)
             => /\ cpc'[t] = "idle"
                /\ cresp'[t].code = "OK"
                /\ disks' = disks
          /\ (/\ cpc[t] \in {"dv_delete", "dv_wait"} /\ cpc'[t] = "idle"
              /\ cresp'[t].code = "OK")
             => ~DiskAt(disks', clocal[t].zone, clocal[t].name).exists]_vars

\* A DeleteVolume that removed the disk, and after it a second one for the
\* same identifier that found no disk and succeeded on the delete request.
C11_Witness ==
    \E t, u \in CtrlTasks :
        /\ u \in hist[t].after
        /\ Returned(t, "DeleteVolume") /\ Returned(u, "DeleteVolume")
        /\ creq[t].volumeID = creq[u].volumeID
        /\ SplitZoneNameId(creq[t].volumeID).ok
        /\ cresp[t].code = "OK" /\ cresp[u].code = "OK"
        /\ hist[u].calls = 2 /\ hist[t].calls = 1

\* The delete request of task t (at del) and the wait for its operation (at
\* wait), for a resource that is there or not, in use or not, before the step
\* and there or not after it.
DeleteMapped(t, del, wait, there, used, thereAfter) ==
    /\ (cpc[t] = del /\ cpc'[t] # del)
       => LET fault == hist'[t].faulted
              code == cresp'[t].code
          IN /\ hist'[t].issued = 1
             /\ (~fault /\ there /\ used) => (cpc'[t] = "idle" /\ code = "FailedPrecondition")
             /\ (~fault /\ ~there) => (cpc'[t] = "idle" /\ code = "OK")
             /\ fault => (cpc'[t] = "idle" /\ code = "Internal")
             /\ (~fault /\ there /\ ~used) => cpc'[t] = wait
    /\ (cpc[t] = wait /\ cpc'[t] # wait)
       => /\ cpc'[t] = "idle"
          /\ cresp'[t].code \in {"OK", "Internal"}
          /\ cresp'[t].code = "OK" <=> (there /\ ~thereAfter /\ ~hist'[t].faulted)
    /\ (cpc[t] \in {del, wait} /\ cpc'[t] = "idle" /\ cresp'[t].code = "OK")
       => ~thereAfter

\* C12: DeleteVolume and DeleteSnapshot answer the cloud's 'in use by another
\* resource' with FailedPrecondition, a resource that is not there with
\* success, and every other error of the delete request or of the wait for
\* its operation with Internal; they return success only when the resource
\* was gone already or the accepted operation completed and removed it.
C12_DeleteErrors ==
    [][\A t \in CtrlTasks :
          LET l == clocal[t] IN
          /\ DeleteMapped(t, "dv_delete", "dv_wait",
                          DiskAt(disks, l.zone, l.name).exists,
                          InUse(attached, l.zone, l.name),
                          DiskAt(disks', l.zone, l.name).exists)
          /\ DeleteMapped(t, "ds_delete", "ds_wait",
                          SnapshotAt(snapshots, l.name).exists,
                          SnapshotAt(snapshots, l.name).inUse,
                          SnapshotAt(snapshots', l.name).exists)]_vars

\* A DeleteVolume of an attached disk and a DeleteSnapshot of a snapshot in
\* use, both refused by the cloud and answered FailedPrecondition.
C12_Witness ==
    \E t, u \in CtrlTasks :
        /\ Returned(t, "DeleteVolume") /\ cresp[t].code = "FailedPrecondition"
        /\ InUse(attached, clocal[t].zone, clocal[t].name)
        /\ Returned(u, "DeleteSnapshot") /\ cresp[u].code = "FailedPrecondition"
        /\ SnapshotAt(snapshots, clocal[u].name).inUse
        /\ hist[t].issued = 1 /\ hist[u].issued = 1

\* The mode ControllerPublishVolume of task t wants, and the devices of the
\* instance it names.
ModeOf(t) == IF creq[t].readOnly THEN "READ_ONLY" ELSE "READ_WRITE"
InstanceOf(t) == <<clocal[t].zone, creq[t].nodeID>>
DeviceOf(t) == {d \in InstanceDisks(attached, clocal[t].zone, creq[t].nodeID) :
                   d.deviceName = clocal[t].name}

\* C13: ControllerPublishVolume is idempotent.  When it has got the disk and
\* the instance and the disk is attached to the instance already, it returns
\* there: with success when the attachment has the requested mode (READ_ONLY
\* exactly when readOnly), with AlreadyExists when it has the other mode; it
\* has sent no attach or detach request and the attachments are as before.
C13_PublishIdempotent ==
    [][\A t \in CtrlTasks :
          (/\ cpc[t] = "cp_getinst" /\ cpc'[t] # "cp_getinst"
           /\ InstanceOf(t) \in Instances
           /\ DeviceOf(t) # {}
           /\ ~hist'[t].faulted)
          => /\ cpc'[t] = "idle"
             /\ cresp'[t].code = IF \E d \in DeviceOf(t) : d.mode = ModeOf(t)
                                 THEN "OK" ELSE "AlreadyExists"
             /\ hist'[t].issued = 0
             /\ attached' = attached /\ disks' = disks]_vars

\* The disk attached read-write: a second read-write ControllerPublishVolume
\* has returned success and a read-only one AlreadyExists, neither having
\* sent a request.
C13_Witness ==
    \E t, u \in CtrlTasks :
        /\ Returned(t, "ControllerPublishVolume") /\ Returned(u, "ControllerPublishVolume")
        /\ ~creq[t].readOnly /\ creq[u].readOnly
        /\ cresp[t].code = "OK" /\ cresp[u].code = "AlreadyExists"
        /\ hist[t].calls = 2 /\ hist[t].issued = 0
        /\ hist[u].calls = 2 /\ hist[u].issued = 0
        /\ DeviceOf(t) = {AttachedDisk(DiskName, "READ_WRITE")}

PublishLabels == {"cp_getdisk", "cp_getinst", "cp_attach", "cp_wait", "cp_waitattach"}

\* C14: ControllerPublishVolume of a disk not attached to the instance goes
\* on to the attach request, the one mutating request of the call; then it
\* waits for the attach operation, which attaches the disk READ_ONLY exactly
\* when readOnly was asked and READ_WRITE otherwise; then it waits for the
\* attachment to show.  It returns success after an attach request only from
\* the second wait, as its fifth cloud call; when the attach request or
\* either wait fails it returns Internal.
C14_AttachThenWaits ==
    [][\A t \in CtrlTasks :
          LET left(label) == cpc[t] = label /\ cpc'[t] # label
              fault == hist'[t].faulted
              internal == cpc'[t] = "idle" /\ cresp'[t].code = "Internal"
          IN
          /\ (left("cp_getinst") /\ InstanceOf(t) \in Instances /\ DeviceOf(t) = {} /\ ~fault)
             => cpc'[t] = "cp_attach" /\ hist'[t].issued = 0
          /\ left("cp_attach")
             => /\ hist'[t].issued = 1
                /\ IF fault THEN internal ELSE cpc'[t] = "cp_wait"
                /\ attached' = attached
          /\ left("cp_wait")
             => /\ hist'[t].issued = 1
                /\ IF fault THEN internal /\ attached' = attached
                   ELSE /\ cpc'[t] = "cp_waitattach"
                        /\ attached' = [attached EXCEPT ![InstanceOf(t)] =
                              @ \cup {AttachedDisk(clocal[t].name, ModeOf(t))}]
          /\ left("cp_waitattach")
             => /\ hist'[t].issued = 1 /\ hist'[t].calls = 5
                /\ IF fault THEN internal ELSE cpc'[t] = "idle" /\ cresp'[t].code = "OK"
                /\ attached' = attached
          /\ (cpc[t] \in PublishLabels /\ cpc'[t] = "idle"
              /\ cresp'[t].code = "OK" /\ hist'[t].issued > 0)
             => cpc[t] = "cp_waitattach"]_vars

\* A read-only ControllerPublishVolume that attached the disk: five cloud
\* calls, one attach request, success, and the disk attached READ_ONLY.
C14_Witness ==
    \E t \in CtrlTasks :
        /\ Returned(t, "ControllerPublishVolume") /\ creq[t].readOnly
        /\ cresp[t].code = "OK"
        /\ hist[t].calls = 5 /\ hist[t].issued = 1 /\ ~hist[t].faulted
        /\ DeviceOf(t) = {AttachedDisk(DiskName, "READ_ONLY")}

UnpublishLabels == {"cu_getdisk", "cu_getinst", "cu_detach", "cu_wait"}

\* C15: ControllerUnpublishVolume, having got the disk and the instance,
\* returns success at once, no detach request sent and the attachments as
\* before, when the disk is not attached to the instance; when it is attached
\* it sends the detach request, the one mutating request of the call, and
\* returns success only from the wait for the detach operation, the disk then
\* not attached to the instance: a repeated call finds it so and is the no-op.
\* A failing detach request or wait gives Internal.
C15_UnpublishIdempotent ==
    [][\A t \in CtrlTasks :
          LET left(label) == cpc[t] = label /\ cpc'[t] # label
              fault == hist'[t].faulted
              internal == cpc'[t] = "idle" /\ cresp'[t].code = "Internal"
          IN
          /\ (left("cu_getinst") /\ InstanceOf(t) \in Instances /\ ~fault)
             => /\ hist'[t].issued = 0 /\ attached' = attached
                /\ IF DeviceOf(t) = {}
                   THEN cpc'[t] = "idle" /\ cresp'[t].code = "OK"
                   ELSE cpc'[t] = "cu_detach"
          /\ left("cu_detach")
             => /\ hist'[t].issued = 1
                /\ IF fault THEN internal ELSE cpc'[t] = "cu_wait"
                /\ attached' = attached
          /\ left("cu_wait")
             => /\ hist'[t].issued = 1
                /\ IF fault THEN internal /\ attached' = attached
                   ELSE /\ cpc'[t] = "idle" /\ cresp'[t].code = "OK"
                        /\ ~diskIsAttached(clocal[t].name, attached'[InstanceOf(t)])
          /\ (cpc[t] \in UnpublishLabels /\ cpc'[t] = "idle"
              /\ cresp'[t].code = "OK" /\ hist'[t].issued > 0)
             => cpc[t] = "cu_wait"]_vars

\* A ControllerUnpublishVolume that detached the disk, and after it a second
\* one for the same volume and node that succeeded without a detach request.
C15_Witness ==
    \E t, u \in CtrlTasks :
        /\ u \in hist[t].after
        /\ Returned(t, "ControllerUnpublishVolume") /\ Returned(u, "ControllerUnpublishVolume")
        /\ creq[t].volumeID = creq[u].volumeID /\ creq[t].nodeID = creq[u].nodeID
        /\ cresp[t].code = "OK" /\ cresp[u].code = "OK"
        /\ hist[u].calls = 4 /\ hist[u].issued = 1
        /\ hist[t].calls = 2 /\ hist[t].issued = 0

\* C16: ControllerUnpublishVolume answers success when the lookup of the
\* disk finds no disk, and when the lookup of the instance finds no
\* instance, the cloud not failing otherwise.
C16_UnpublishNotFoundIsSuccess ==
    [][\A t \in CtrlTasks :
          LET left(label) == cpc[t] = label /\ cpc'[t] # label
              success == cpc'[t] = "idle" /\ cresp'[t].code = "OK"
          IN
          /\ (/\ left("cu_getdisk") /\ ~hist'[t].faulted
              /\ ~DiskAt(disks, clocal[t].zone, clocal[t].name).exists)
             => success
          /\ (/\ left("cu_getinst") /\ ~hist'[t].faulted
              /\ InstanceOf(t) \notin Instances)
             => success]_vars

\* Task t enters a handler in this step.
Enters(t) ==
    /\ AtIdle(t)
    /\ <<cpc[t], creq[t], cresp[t], clocal[t]>>' # <<cpc[t], creq[t], cresp[t], clocal[t]>>

\* A topology entry that names a zone and nothing else, and the zone it names.
NamesZone(seg) ==
    /\ ~seg.isNil
    /\ \E z \in Zones : seg.pairs = {<<TopologyKeyZone, z>>}
ZoneNamed(seg) == CHOOSE z \in Zones : seg.pairs = {<<TopologyKeyZone, z>>}

\* CreateVolume of task t got past its argument checks with this zone.
CreatesIn(t, zone) == cpc'[t] = "cv_get" /\ clocal'[t].zone = zone
\* CreateVolume of task t returned InvalidArgument from its argument checks.
RejectsArguments(t) ==
    /\ cpc'[t] = "idle"
    /\ cresp'[t].code = "InvalidArgument"
    /\ hist'[t].calls = 0
    /\ disks' = disks

\* C17: topology selection.  With preferred entries the zone is that of the
\* first preferred entry, whatever is requisite; with requisite entries only
\* it is the zone of one of them; with no entry in either list the selection
\* fails and CreateVolume returns InvalidArgument with no cloud call.  (The
\* entries that decide are ones that name a zone.)
C17_TopologySelection ==
    [][\A t \in CtrlTasks :
          LET top == creq'[t].accessibilityRequirements
              pref == top.preferred
              requ == top.requisite
          IN
          /\ (top.present /\ pref # <<>> /\ NamesZone(pref[1]))
             => \A r \in RandomIndices(top) :
                   pickTopology(top, r) = [ok |-> TRUE, zone |-> ZoneNamed(pref[1])]
          /\ (top.present /\ pref = <<>> /\ requ # <<>>)
             => \A r \in RandomIndices(top) :
                   NamesZone(requ[r])
                   => pickTopology(top, r) = [ok |-> TRUE, zone |-> ZoneNamed(requ[r])]
          /\ (top.present /\ pref = <<>> /\ requ = <<>>)
             => \A r \in RandomIndices(top) : ~pickTopology(top, r).ok
          /\ (Enters(t) /\ creq'[t].op = "CreateVolume" /\ top.present
              /\ creq'[t].parameters = <<>>)
             => /\ (pref # <<>> /\ NamesZone(pref[1]))
                   => CreatesIn(t, ZoneNamed(pref[1]))
                /\ (pref = <<>> /\ requ # <<>> /\ \A i \in 1..Len(requ) : NamesZone(requ[i]))
                   => \E i \in 1..Len(requ) : CreatesIn(t, ZoneNamed(requ[i]))
                /\ (pref = <<>> /\ requ = <<>>) => RejectsArguments(t)]_vars

\* CreateVolume with one zone requisite and another preferred has made its
\* disk in the preferred zone.
C17_Witness ==
    \E t \in CtrlTasks :
        /\ Returned(t, "CreateVolume") /\ cresp[t].code = "OK"
        /\ creq[t].accessibilityRequirements =
              Topology(<<ZoneSegment(DriverZone)>>, <<ZoneSegment(OtherZone)>>)
        /\ cresp[t].zone = OtherZone
        /\ DiskAt(disks, OtherZone, DiskName).exists
        /\ ~DiskAt(disks, DriverZone, DiskName).exists

\* Some entry of the list carries a key other than the zone key.
CarriesOtherKey(list) ==
    \E i \in 1..Len(list) : \E kv \in list[i].pairs : kv[1] # TopologyKeyZone

\* C18: when any entry of the accessibility requirements, requisite or
\* preferred, carries a key other than the zone key, CreateVolume returns
\* InvalidArgument from its argument checks, no cloud call made.
C18_OtherKeyRejected ==
    [][\A t \in CtrlTasks :
          LET top == creq'[t].accessibilityRequirements IN
          (/\ Enters(t) /\ creq'[t].op = "CreateVolume" /\ top.present
           /\ CarriesOtherKey(top.requisite) \/ CarriesOtherKey(top.preferred))
          => RejectsArguments(t)]_vars

\* The zones the request gives with a zone parameter.
ZoneParameters(r) ==
    {r.parameters[i][2] : i \in {j \in 1..Len(r.parameters) :
                                    ToLower(r.parameters[j][1]) = ParameterKeyZone}}

\* C19: the zone of CreateVolume.  Accessibility requirements together with
\* a zone parameter are refused with InvalidArgument, no cloud call made.
\* Otherwise a CreateVolume that passes its argument checks works in the zone
\* picked from the accessibility requirements when they are given, else in the
\* zone of the zone parameter when that is given, else in the driver's own
\* zone; and when it returns success the identifier is the zone and the name
\* combined and the accessible topology of the response is that zone.
C19_ZoneResolution ==
    [][\A t \in CtrlTasks :
          LET r == creq'[t]
              top == r.accessibilityRequirements
          IN
          /\ (Enters(t) /\ r.op = "CreateVolume" /\ top.present /\ ZoneParameters(r) # {})
             => RejectsArguments(t)
          /\ (Enters(t) /\ r.op = "CreateVolume" /\ cpc'[t] = "cv_get")
             => /\ clocal'[t].name = r.name
                /\ IF top.present
                   THEN \E i \in RandomIndices(top) :
                           /\ pickTopology(top, i).ok
                           /\ clocal'[t].zone = pickTopology(top, i).zone
                   ELSE IF ZoneParameters(r) # {}
                   THEN clocal'[t].zone \in ZoneParameters(r)
                   ELSE clocal'[t].zone = DriverZone
          /\ (cpc[t] \in CreateLabels /\ cpc'[t] = "idle" /\ cresp'[t].code = "OK")
             => /\ cresp'[t].volumeID = CombineVolumeId(clocal[t].zone, creq[t].name)
                /\ cresp'[t].zone = clocal[t].zone
                /\ clocal'[t] = clocal[t]]_vars

\* CreateVolume with the zone parameter and no accessibility requirements has
\* made its disk in that zone and returned the identifier of that zone.
C19_Witness ==
    \E t \in CtrlTasks :
        /\ Returned(t, "CreateVolume") /\ cresp[t].code = "OK"
        /\ creq[t].parameters = <<<<"Zone", OtherZone>>>>
        /\ ~creq[t].accessibilityRequirements.present
        /\ cresp[t].volumeID = CombineVolumeId(OtherZone, DiskName)
        /\ cresp[t].zone = OtherZone
        /\ DiskAt(disks, OtherZone, DiskName).exists

\* The keys the parameters may carry: those of the disk type, the zone, the
\* replication type and the encryption key in any case of letters, and the
\* two keys of the provisioner's secret.
ParameterKeyAccepted(k) ==
    \/ ToLower(k) \in {ParameterKeyType, ParameterKeyZone, ParameterKeyReplicationType,
                       ParameterKeyDiskEncryptionKmsKey}
    \/ k \in {"csiProvisionerSecretName", "csiProvisionerSecretNamespace"}

\* C20: CreateVolume without accessibility requirements returns
\* InvalidArgument from its argument checks exactly when one of its
\* parameters has a key that is none of disk type, zone, replication type and
\* encryption key, compared without regard to case, and neither of the two
\* secret keys.
C20_ParameterKeys ==
    [][\A t \in CtrlTasks :
          LET r == creq'[t] IN
          (Enters(t) /\ r.op = "CreateVolume" /\ ~r.accessibilityRequirements.present)
          => IF \A i \in 1..Len(r.parameters) : ParameterKeyAccepted(r.parameters[i][1])
             THEN cpc'[t] = "cv_get"
             ELSE RejectsArguments(t)]_vars

\* C21: ValidateVolumeCapabilities, the lookup of the disk not failing
\* otherwise.  It returns NotFound and no response when the disk is not
\* there.  With the disk there and a requested access mode that is not one of
\* the driver's it returns a response that says unsupported, with a message,
\* together with an error.  With every mode one of the driver's and an
\* accessible topology whose first entry with segments names a zone and
\* nothing else, it returns without error, supported exactly when that zone is
\* the disk's and else unsupported with a message; with no accessible
\* topology, supported.  No step of it changes disks, attachments or
\* snapshots.
C21_ValidateCapabilities ==
    [][\A t \in CtrlTasks :
          LET r == creq[t]
              top == r.accessibleTopology
              filled == {i \in 1..Len(top) : top[i].pairs # {}}
              first == CHOOSE i \in filled : \A j \in filled : i <= j
              there == DiskAt(disks, clocal[t].zone, clocal[t].name).exists
              badMode == \E i \in 1..Len(r.accessModes) : r.accessModes[i] \notin DriverModes
              reply == cresp'[t]
          IN
          /\ (cpc[t] = "vv_getdisk" /\ cpc'[t] # "vv_getdisk" /\ ~hist'[t].faulted)
             => /\ cpc'[t] = "idle"
                /\ ~there => (reply.code = "NotFound" /\ reply.supported = "none")
                /\ (there /\ badMode)
                   => /\ reply.code \notin {"OK", "none"}
                      /\ reply.supported = "no" /\ reply.message
                /\ (there /\ ~badMode /\ filled = {})
                   => (reply.code = "OK" /\ reply.supported = "yes")
                /\ (there /\ ~badMode /\ filled # {})
                   => \A z \in Zones :
                         top[first].pairs = {<<TopologyKeyZone, z>>}
                         => /\ reply.code = "OK"
                            /\ reply.supported = "yes" <=> z = clocal[t].zone
                            /\ reply.supported = "no" <=> z # clocal[t].zone
                            /\ z # clocal[t].zone => reply.message
          /\ (/\ creq'[t].op = "ValidateVolumeCapabilities"
              /\ <<cpc[t], cresp[t], clocal[t]>>' # <<cpc[t], cresp[t], clocal[t]>>)
             => (disks' = disks /\ attached' = attached /\ snapshots' = snapshots)]_vars

\* ValidateVolumeCapabilities of the disk in the driver's zone with the other
\* zone as accessible topology: no error, unsupported, with a message.
C21_Witness ==
    \E t \in CtrlTasks :
        /\ Returned(t, "ValidateVolumeCapabilities")
        /\ creq[t].accessibleTopology = <<ZoneSegment(OtherZone)>>
        /\ DiskAt(disks, DriverZone, DiskName).exists
        /\ clocal[t].zone = DriverZone
        /\ cresp[t].code = "OK" /\ cresp[t].supported = "no" /\ cresp[t].message
        /\ hist[t].calls = 1 /\ hist[t].issued = 0

\* The result statuses, and the one each cloud status is to give.
ResultStatuses == {"READY", "UPLOADING", "ERROR_UPLOADING", "UNKNOWN"}
ResultOf(status) ==
    IF status \in {"READY", "DELETING"} THEN "READY"
    ELSE IF status = "UPLOADING" THEN "UPLOADING"
    ELSE IF status = "FAILED" THEN "ERROR_UPLOADING"
    ELSE "UNKNOWN"

\* C22: the status of the snapshot CreateSnapshot returns is READY for the
\* cloud's READY, UPLOADING for UPLOADING, ERROR_UPLOADING for FAILED, READY
\* for DELETING and UNKNOWN for any other status of the snapshot it got, and
\* so always one of these four.
C22_SnapshotStatus ==
    [][\A t \in CtrlTasks :
          /\ \A status \in CloudStatuses \cup {""} :
                /\ SnapshotStatusType(status) = ResultOf(status)
                /\ SnapshotStatusType(status) \in ResultStatuses
          /\ (cpc[t] = "cs_get" /\ cpc'[t] = "idle" /\ cresp'[t].code = "OK")
             => /\ cresp'[t].status = ResultOf(SnapshotAt(snapshots, creq[t].name).status)
                /\ cresp'[t].status \in ResultStatuses]_vars

\* The one caller so far has got READY from CreateSnapshot for a snapshot
\* the cloud has as DELETING.
C22_Witness ==
    \E t, u \in CtrlTasks :
        /\ creq[u] = NoCtrlReq
        /\ Returned(t, "CreateSnapshot") /\ cresp[t].code = "OK"
        /\ cresp[t].status = "READY"
        /\ SnapshotAt(snapshots, creq[t].name).status = "DELETING"
        /\ hist[t].calls = 2 /\ ~hist[t].faulted

\* C23: when the cloud's CreateSnapshot finds the name taken, the handler
\* goes on to wait for and get the snapshot, the snapshots as before; any
\* other error of the create request returns Internal and no snapshot, none
\* made.  CreateSnapshot returns success only from the get, and then with
\* the requested name, a snapshot that is there, as the snapshot's id: a
\* repeated CreateSnapshot of the name returns the same id.
C23_SnapshotReused ==
    [][\A t \in CtrlTasks :
          LET left(label) == cpc[t] = label /\ cpc'[t] # label
              taken == SnapshotAt(snapshots, creq[t].name).exists
          IN
          /\ (left("cs_create") /\ taken /\ ~hist'[t].faulted)
             => (cpc'[t] = "cs_get" /\ snapshots' = snapshots)
          /\ (left("cs_create") /\ hist'[t].faulted)
             => /\ cpc'[t] = "idle" /\ cresp'[t].code = "Internal"
                /\ cresp'[t].snapshotID = <<>> /\ cresp'[t].status = "none"
                /\ snapshots' = snapshots
          /\ (cpc[t] \in {"cs_create", "cs_get"} /\ cpc'[t] = "idle" /\ cresp'[t].code = "OK")
             => /\ cpc[t] = "cs_get"
                /\ cresp'[t].snapshotID = creq[t].name
                /\ taken]_vars

\* A CreateSnapshot that made the snapshot, and after it a second one of the
\* same name that found it and returned the same id.
C23_Witness ==
    \E t, u \in CtrlTasks :
        /\ u \in hist[t].after
        /\ Returned(t, "CreateSnapshot") /\ Returned(u, "CreateSnapshot")
        /\ creq[t].name = creq[u].name
        /\ cresp[t].code = "OK" /\ cresp[u].code = "OK"
        /\ cresp[t].snapshotID = cresp[u].snapshotID /\ cresp[t].snapshotID = SnapshotName
        /\ hist[t].calls = 2 /\ hist[u].calls = 2
        /\ ~hist[t].faulted /\ ~hist[u].faulted

(***************************************************************************)
(* Properties of the node handlers' bodies against the mount executor.     *)
(***************************************************************************)
\* t returns from the body of handler op in this step.
Returns(t, op) == Running(t, op) /\ pc'[t] = "idle"

\* The step leaves what the body leaves.
Leaves(t, out) ==
    /\ resp'[t] = ReplyOf(req[t].op, out.resp)
    /\ pathType' = out.pathType
    /\ mounts' = out.mounts

StageOut(t, f) == NodeStageVolumeBody(req[t], pathType, mounts, f)
PublishOut(t, f) == NodePublishVolumeBody(req[t], pathType, mounts, f)

\* The faults that keep NodeStageVolume from learning whether the staging
\* path is a mount point: device path unresolved, or the check itself failing.
StageBlind == {"verifyDevice", "noDevice", "isMnt"}

\* C24: NodeStageVolume that finds its staging path a mount point, and
\* NodePublishVolume that finds its target path a mount point, return OK
\* with mount table and paths as before, whatever the (valid) capability and
\* read-only flag of the request; no returning stage or publish changes the
\* mount of a path that was a mount point.
C24_AlreadyMounted ==
    [][\A t \in Tasks :
          /\ (Returns(t, "NodeStageVolume") /\ mounts[req[t].stagingTargetPath].mounted)
             => /\ \E f \in StageFaults : Leaves(t, StageOut(t, f))
                /\ mounts' = mounts /\ pathType' = pathType
                /\ \A f \in StageFaults \ StageBlind :
                       (validateVolumeCapability(req[t].volumeCapability)
                          /\ VolumeIDToKey(req[t].volumeID).ok)
                       => StageOut(t, f) = Out("OK", pathType, mounts, TRUE)
          /\ (Returns(t, "NodePublishVolume") /\ mounts[req[t].targetPath].mounted)
             => /\ \E f \in PublishFaults : Leaves(t, PublishOut(t, f))
                /\ mounts' = mounts /\ pathType' = pathType
                /\ \A f \in PublishFaults \ {"isMnt"} :
                       validateVolumeCapability(req[t].volumeCapability)
                       => PublishOut(t, f) = Out("OK", pathType, mounts, TRUE)]_vars

\* Both callers have staged the volume with one request, the second finding
\* the mount of the first; or have published it read-only in block mode onto
\* a target that was a read-write mount of the staging path, and left it so.
C24_Witness ==
    \/ /\ nodePool.request = [StageBase EXCEPT !.volumeCapability = Cap("mount", "xfs", <<"noatime">>)]
       /\ \A t \in Tasks : pc[t] = "idle" /\ resp[t] = ReplyOf("NodeStageVolume", Reply("OK", 0, TRUE))
       /\ mounts[StagingOf(GoodID)].fstype = "xfs"
    \/ /\ nodePool.request = [PublishBase EXCEPT !.volumeCapability = BlockCap, !.readOnly = TRUE]
       /\ \A t \in Tasks : pc[t] = "idle" /\ resp[t] = ReplyOf("NodePublishVolume", Reply("OK", 0, TRUE))
       /\ mounts[TargetOf(GoodID)] = MountOf(StagingOf(GoodID), "ext4", <<"bind">>)

\* C25: NodeStageVolume with a block-mode capability returns OK when its
\* executor calls succeed, and leaves the mount table and the paths of the
\* node, the staging path among them, as they were before the call.
C25_BlockStageNoop ==
    [][\A t \in Tasks :
          (/\ Returns(t, "NodeStageVolume")
           /\ req[t].volumeCapability.kind = "block"
           /\ VolumeIDToKey(req[t].volumeID).ok)
          => /\ StageOut(t, "none").resp.code = "OK"
             /\ mounts' = mounts
             /\ pathType' = pathType]_vars

\* What FormatAndMount of NodeStageVolume mounts at the staging path for
\* request r: the device of the volume, the requested filesystem type or
\* ext4, the requested mount flags.
StagedMount(r) ==
    MountOf(DiskByIdPath(VolumeIDToKey(r.volumeID).name),
            IF r.volumeCapability.fsType # "" THEN r.volumeCapability.fsType ELSE "ext4",
            r.volumeCapability.mountFlags)

\* C26: NodeStageVolume in mount mode on a staging path that is no mount
\* point returns Internal, paths and mounts untouched, when the device path
\* does not resolve; when it resolves, FormatAndMount mounts the device at
\* the staging path with the requested filesystem type, ext4 when none is
\* requested, and the requested flags, and a failure of it returns Internal
\* with the mount table unchanged.  The call returns OK only with the
\* staging path a mount point of that device.
C26_StageMounts ==
    [][\A t \in Tasks :
          (/\ Returns(t, "NodeStageVolume")
           /\ req[t].volumeCapability.kind = "mount"
           /\ VolumeIDToKey(req[t].volumeID).ok
           /\ ~mounts[req[t].stagingTargetPath].mounted)
          => LET staged == [mounts EXCEPT ![req[t].stagingTargetPath] = StagedMount(req[t])]
             IN
             /\ \E f \in StageFaults : Leaves(t, StageOut(t, f))
             /\ \A f \in {"verifyDevice", "noDevice"} :
                    StageOut(t, f) = Out("Internal", pathType, mounts, TRUE)
             /\ StageOut(t, "mount").resp.code = "Internal"
             /\ StageOut(t, "mount").mounts = mounts
             /\ StageOut(t, "none").resp.code = "OK"
             /\ StageOut(t, "none").mounts = staged
             /\ resp'[t].code \in {"OK", "Internal"}
             /\ resp'[t].code = "OK" => mounts' = staged
             /\ resp'[t].code = "Internal" => mounts' = mounts]_vars

\* A stage that asked for xfs with noatime has mounted the device so at a
\* staging path that did not exist; and one that named no filesystem type
\* has mounted it as ext4 at a staging directory that was not mounted.
C26_Witness ==
    \E t \in Tasks :
        /\ pc[t] = "idle" /\ resp[t] = ReplyOf("NodeStageVolume", Reply("OK", 0, TRUE))
        /\ ~nodePool.staging.mount.mounted
        /\ \/ /\ nodePool.request.volumeCapability = Cap("mount", "xfs", <<"noatime">>)
              /\ nodePool.staging.type = "absent"
              /\ mounts[StagingOf(GoodID)] = MountOf("/dev/disk/by-id/google-d", "xfs", <<"noatime">>)
           \/ /\ nodePool.request.volumeCapability = Cap("mount", "", <<>>)
              /\ nodePool.staging.type = "dir"
              /\ mounts[StagingOf(GoodID)] = MountOf("/dev/disk/by-id/google-d", "ext4", <<>>)
        /\ pathType[StagingOf(GoodID)] = "dir"

\* The path a clean-up handler cleans, and what its body leaves.
CleanedPath(r) ==
    IF r.op = "NodeUnstageVolume" THEN r.stagingTargetPath ELSE r.targetPath
CleanupOut(r, pt, mt, f) ==
    IF r.op = "NodeUnstageVolume" THEN NodeUnstageVolumeBody(r, pt, mt, f)
    ELSE NodeUnpublishVolumeBody(r, pt, mt, f)

\* C27: NodeUnstageVolume and NodeUnpublishVolume return OK on a path that
\* does not exist, paths and mounts untouched, and on a path that is no
\* mount point when the clean-up does not fail; after an OK the path is no
\* mount point, and the same call made again returns OK and changes nothing;
\* a failure of the clean-up returns Internal with the mount table as it was.
C27_CleanupIdempotent ==
    [][\A t \in Tasks :
          (Returns(t, "NodeUnstageVolume") \/ Returns(t, "NodeUnpublishVolume"))
          => LET p == CleanedPath(req[t])
                 out(f) == CleanupOut(req[t], pathType, mounts, f)
             IN
             /\ \E f \in CleanupFaults : Leaves(t, out(f))
             /\ pathType[p] = "absent"
                => \A f \in CleanupFaults : out(f) = Out("OK", pathType, mounts, TRUE)
             /\ ~mounts[p].mounted => out("none").resp.code = "OK"
             /\ pathType[p] # "absent"
                => out("cleanup") = Out("Internal", pathType, mounts, TRUE)
             /\ resp'[t].code \in {"OK", "Internal"}
             /\ resp'[t].code = "OK"
                => /\ ~mounts'[p].mounted
                   /\ \A f \in CleanupFaults :
                          CleanupOut(req[t], pathType', mounts', f)
                             = Out("OK", pathType', mounts', TRUE)]_vars

\* Both callers have unstaged a volume that was staged: the first call
\* unmounted the staging path, the second found nothing to clean up.
C27_Witness ==
    /\ nodePool.request = UnstageBase
    /\ nodePool.staging.mount.mounted
    /\ \A t \in Tasks :
           pc[t] = "idle" /\ resp[t] = ReplyOf("NodeUnstageVolume", Reply("OK", 0, TRUE))
    /\ ~mounts[StagingOf(GoodID)].mounted
    /\ pathType[StagingOf(GoodID)] = "absent"

\* The mount options of a publish: 'bind', then 'ro' exactly for a read-only
\* request, then the flags the request asks for.
BindOptions(r, flags) == <<"bind">> \o (IF r.readOnly THEN <<"ro">> ELSE <<>>) \o flags

\* C28: NodePublishVolume on a target that is no mount point, its executor
\* calls succeeding: in mount mode the target becomes a directory and a mount
\* of the staging path with 'bind', 'ro' exactly when the request is
\* read-only, and the requested flags; in block mode the target becomes a
\* file and a mount of the volume's device path with 'bind' and 'ro' when
\* read-only, whatever the staging path of the request; with a capability
\* that is neither the call returns InvalidArgument and changes nothing.
\* The call returns OK only with the target mounted so.
C28_PublishByCapability ==
    [][\A t \in Tasks :
          (Returns(t, "NodePublishVolume") /\ ~mounts[req[t].targetPath].mounted)
          => LET r == req[t]
                 cap == r.volumeCapability
                 target == r.targetPath
                 fstype == IF cap.fsType # "" THEN cap.fsType ELSE "ext4"
                 bound(source, fs, flags, type) ==
                     Out("OK", [pathType EXCEPT ![target] = type],
                         [mounts EXCEPT ![target] =
                             [mounted |-> TRUE, source |-> source, fstype |-> fs,
                              opts |-> BindOptions(r, flags)]], TRUE)
                 expected ==
                     IF cap.kind = "mount"
                     THEN bound(r.stagingTargetPath, fstype, cap.mountFlags, "dir")
                     ELSE bound(DiskByIdPath(VolumeIDToKey(r.volumeID).name), "", <<>>, "file")
             IN
             /\ \E f \in PublishFaults : Leaves(t, PublishOut(t, f))
             /\ (cap.kind = "mount" /\ pathType[target] \in {"absent", "dir"})
                => PublishOut(t, "none") = expected
             /\ (cap.kind = "block" /\ pathType[target] \in {"absent", "file"}
                   /\ VolumeIDToKey(r.volumeID).ok)
                => /\ PublishOut(t, "none") = expected
                   /\ expected.mounts[target].source # r.stagingTargetPath
                   /\ NodePublishVolumeBody([r EXCEPT !.stagingTargetPath = "/elsewhere"],
                                            pathType, mounts, "none") = expected
             /\ cap.kind \notin {"mount", "block"}
                => /\ \A f \in PublishFaults : PublishOut(t, f).resp.code = "InvalidArgument"
                   /\ resp'[t].code = "InvalidArgument"
                   /\ mounts' = mounts /\ pathType' = pathType
             /\ resp'[t].code = "OK"
                => (mounts' = expected.mounts /\ pathType' = expected.pathType)]_vars

\* A read-only publish in mount mode with xfs and noatime has bind-mounted the
\* staging path on a target that did not exist; or a read-only publish in
\* block mode has bind-mounted the device on a file made at the target.
C28_Witness ==
    \E t \in Tasks :
        /\ pc[t] = "idle" /\ resp[t] = ReplyOf("NodePublishVolume", Reply("OK", 0, TRUE))
        /\ nodePool.request.readOnly
        /\ nodePool.target = AbsentPath
        /\ \/ /\ nodePool.request.volumeCapability = Cap("mount", "xfs", <<"noatime">>)
              /\ pathType[TargetOf(GoodID)] = "dir"
              /\ mounts[TargetOf(GoodID)]
                    = MountOf(StagingOf(GoodID), "xfs", <<"bind", "ro", "noatime">>)
           \/ /\ nodePool.request.volumeCapability = BlockCap
              /\ pathType[TargetOf(GoodID)] = "file"
              /\ mounts[TargetOf(GoodID)]
                    = MountOf("/dev/disk/by-id/google-d", "", <<"bind", "ro">>)

\* The faults after which NodePublishVolume reaches its last error return:
\* Mount failed and the target is found no mount point, at once or after the
\* unmount.
FinalReturn == {"mount", "mountPartial"}

\* C29: NodePublishVolume on a target that is no mount point never returns
\* OK when its Mount call fails: whatever the recovery finds (the check
\* failing, the target mounted and the unmount failing, the re-check failing,
\* the target still mounted, or the target not or no longer mounted) the call
\* returns Internal once it has reached Mount; after the last error return
\* the target is no mount point and the mount table is as before the call.
\* A publish returns OK only with the target a mount point.
C29_MountFailure ==
    [][\A t \in Tasks :
          (Returns(t, "NodePublishVolume") /\ ~mounts[req[t].targetPath].mounted)
          => LET r == req[t]
                 target == r.targetPath
                 type == IF r.volumeCapability.kind = "mount" THEN "dir" ELSE "file"
                 reachesMount ==
                     /\ validateVolumeCapability(r.volumeCapability)
                     /\ pathType[target] \in {"absent", type}
                     /\ r.volumeCapability.kind = "block" => VolumeIDToKey(r.volumeID).ok
             IN
             /\ \E f \in PublishFaults : Leaves(t, PublishOut(t, f))
             /\ \A f \in MountFaults :
                    /\ PublishOut(t, f).resp.code # "OK"
                    /\ reachesMount => PublishOut(t, f).resp.code = "Internal"
             /\ \A f \in FinalReturn :
                    reachesMount
                    => PublishOut(t, f) = Out("Internal", RemovePath(pathType, target),
                                              mounts, TRUE)
             /\ resp'[t].code = "OK" => mounts'[target].mounted
             /\ resp'[t].code # "OK"
                => (mounts'[target].mounted
                       => \E f \in MountFaults \ FinalReturn : Leaves(t, PublishOut(t, f)))]_vars

\* A publish in mount mode onto a target directory that was not mounted has
\* failed at Mount and returned Internal from the last error return: the
\* target is removed and no mount point.
C29_Witness ==
    \E t \in Tasks :
        /\ nodePool.request = PublishBase
        /\ nodePool.target = [type |-> "dir", mount |-> NoMount]
        /\ pc[t] = "idle"
        /\ resp[t] = ReplyOf("NodePublishVolume", Reply("Internal", 0, TRUE))
        /\ pathType[TargetOf(GoodID)] = "absent"
        /\ ~mounts[TargetOf(GoodID)].mounted

\* C30: NodeExpandVolume past its argument checks returns OK, with the
\* requested size as the capacity, exactly when the device path resolves,
\* the resize succeeds, the block size is read and it is at least the
\* requested size, a larger one included; in every other case it returns
\* Internal.  It changes no path and no mount.
C30_ExpandSizeCheck ==
    [][\A t \in Tasks :
          Returns(t, "NodeExpandVolume")
          => LET reqBytes == getRequestCapacity(req[t].capacityRange).bytes
                 out(f, got) == NodeExpandVolumeBody(req[t], pathType, mounts, f, got)
             IN
             /\ \E f \in ExpandFaults, got \in BlockSizes : resp'[t] = ReplyOf(req[t].op, out(f, got).resp)
             /\ \A f \in ExpandFaults, got \in BlockSizes :
                    /\ out(f, got).resp.code \in {"OK", "Internal"}
                    /\ out(f, got).resp.code = "OK" <=> (f = "none" /\ got >= reqBytes)
                    /\ out(f, got).resp.code = "OK" => out(f, got).resp.capacityBytes = reqBytes
             /\ \E got \in BlockSizes : got > reqBytes /\ out("none", got).resp.code = "OK"
             /\ reqBytes > MinimumVolumeSizeInBytes
                => \E got \in BlockSizes : got < reqBytes /\ out("none", got).resp.code = "Internal"
             /\ mounts' = mounts /\ pathType' = pathType]_vars

\* One request to expand to 10 GiB has been answered OK with that capacity
\* to one caller and Internal to the other.
C30_Witness ==
    \E t, u \in Tasks :
        /\ nodePool.request = [ExpandBase EXCEPT !.capacityRange = Range(10 * GiB, 0)]
        /\ pc[t] = "idle" /\ pc[u] = "idle"
        /\ resp[t] = ReplyOf("NodeExpandVolume", Reply("OK", 10 * GiB, TRUE))
        /\ resp[u] = ReplyOf("NodeExpandVolume", Reply("Internal", 0, TRUE))

\* C31: a NodeExpandVolume that returns OK reports the resulting size: the
\* capacity of its response is the block size read after the resize.
C31_ExpandReportsSize ==
    [][\A t \in Tasks :
          Returns(t, "NodeExpandVolume")
          => \A f \in ExpandFaults, got \in BlockSizes :
                 LET out == NodeExpandVolumeBody(req[t], pathType, mounts, f, got) IN
                 out.resp.code = "OK" => out.resp.capacityBytes = got]_vars

(***************************************************************************)
(* One volume's life: a single caller of the controller and a single       *)
(* caller of the node send the calls of the sequence one after the other,  *)
(* each once the call before it has returned OK, and a call that failed    *)
(* again.                                                                  *)
(***************************************************************************)
LifecycleOps ==
    <<"CreateVolume", "ControllerPublishVolume", "NodeStageVolume", "NodePublishVolume",
      "NodeUnpublishVolume", "NodeUnstageVolume", "ControllerUnpublishVolume", "DeleteVolume">>
LifecycleIndex(op) == CHOOSE i \in 1..Len(LifecycleOps) : LifecycleOps[i] = op

\* How many calls of the sequence have returned OK.
LifecycleDone ==
    LET cdone == IF creq["c1"].op = "none" THEN 0
                 ELSE IF cresp["c1"].code = "OK" THEN LifecycleIndex(creq["c1"].op)
                 ELSE LifecycleIndex(creq["c1"].op) - 1
        ndone == IF resp["t1"].op = "" THEN 2
                 ELSE IF resp["t1"].code = "OK" THEN LifecycleIndex(resp["t1"].op)
                 ELSE LifecycleIndex(resp["t1"].op) - 1
    IN IF cdone = 2 THEN ndone ELSE cdone

NoCallInFlight ==
    /\ \A t \in CtrlTasks : cpc[t] = "idle"
    /\ \A t \in Tasks : pc[t] = "idle"

\* t sends a node call in this step.
NodeEnters(t) == pc[t] = "idle" /\ (pc'[t] = "running" \/ resp'[t] # resp[t])

\* A call is sent only by the one caller, with no call in flight, and it is
\* the next call of the sequence.
InOrder ==
    /\ \A t \in CtrlTasks :
           Enters(t) => /\ t = "c1" /\ NoCallInFlight
                        /\ LifecycleDone < Len(LifecycleOps)
                        /\ creq'[t].op = LifecycleOps[LifecycleDone + 1]
    /\ \A t \in Tasks :
           NodeEnters(t) => /\ t = "t1" /\ NoCallInFlight
                            /\ LifecycleDone < Len(LifecycleOps)
                            /\ \E r \in LifecycleNodeRequests :
                                   /\ r.op = LifecycleOps[LifecycleDone + 1]
                                   /\ \/ req'[t] = r
                                      \/ pc'[t] = "idle" /\ resp'[t].op = r.op

\* No disk, nothing mounted; the staging and the target path of the volume
\* not there yet or made as directories by the caller.
InitLifecycle ==
    /\ \E s, g \in {"absent", "dir"} :
           InitNodeWith(NodeCallersOf("lifecycle", NoReq),
                        [NoPaths EXCEPT ![StagingOf(GoodID)] = s, ![TargetOf(GoodID)] = g],
                        NoMounts)
    /\ InitController(Callers("lifecycle", NoRange))
NextLifecycle ==
    \/ NextCreateVolume /\ UNCHANGED <<nodeVars, mounterVars>> /\ InOrder
    \/ NextPublishVolume /\ UNCHANGED <<nodeVars, mounterVars>> /\ InOrder
    \/ NextNode /\ UNCHANGED <<ctrlVars, mounterVars>> /\ InOrder
    \/ NextUnpublishVolume /\ UNCHANGED <<nodeVars, mounterVars>> /\ InOrder
    \/ NextDeleteVolume /\ UNCHANGED <<nodeVars, mounterVars>> /\ InOrder
SpecLifecycle == InitLifecycle /\ [][NextLifecycle]_vars

LifecycleDisk == DiskAt(disks, DriverZone, DiskName)
LifecycleAttached ==
    {d \in InstanceDisks(attached, DriverZone, "n1") : d.deviceName = DiskName}

\* What the call of the sequence that has just returned OK leaves.
LifecycleLeaves(op) ==
    CASE op = "CreateVolume" ->
             /\ LifecycleDisk.exists /\ GbToBytes(LifecycleDisk.sizeGb) = 20 * GiB
             /\ cresp["c1"].volumeID = GoodID /\ cresp["c1"].capacityBytes = 20 * GiB
      [] op = "ControllerPublishVolume" ->
             LifecycleAttached = {AttachedDisk(DiskName, "READ_WRITE")}
      [] op = "NodeStageVolume" -> mounts[StagingOf(GoodID)].mounted
      [] op = "NodePublishVolume" ->
             /\ mounts[TargetOf(GoodID)].mounted
             /\ mounts[TargetOf(GoodID)].source = StagingOf(GoodID)
      [] op = "NodeUnpublishVolume" -> ~mounts[TargetOf(GoodID)].mounted
      [] op = "NodeUnstageVolume" ->
             ~mounts[TargetOf(GoodID)].mounted /\ ~mounts[StagingOf(GoodID)].mounted
      [] op = "ControllerUnpublishVolume" -> LifecycleAttached = {}
      [] op = "DeleteVolume" -> ~LifecycleDisk.exists
      [] OTHER -> FALSE

\* C32: in the sequence CreateVolume (20 GiB required), ControllerPublishVolume
\* (read-write), NodeStageVolume, NodePublishVolume, NodeUnpublishVolume,
\* NodeUnstageVolume, ControllerUnpublishVolume, DeleteVolume from no disk,
\* each call returns OK when the cloud and the mount executor do not fail
\* it, and a call that returns OK leaves its state: the disk there, the disk
\* attached read-write, the staging path a mount point, the target path a
\* mount point, the target no mount point, the staging path no mount point,
\* the disk not attached, the disk absent.  From the attach to the unstage
\* the disk stays attached read-write.
C32_Lifecycle ==
    /\ [][/\ (cpc["c1"] # "idle" /\ cpc'["c1"] = "idle")
             => /\ ~hist'["c1"].faulted => cresp'["c1"].code = "OK"
                /\ cresp'["c1"].code = "OK" => LifecycleLeaves(creq["c1"].op)'
          /\ Enters("c1") => cpc'["c1"] # "idle"
          /\ NodeEnters("t1") => pc'["t1"] = "running"
          /\ \A op \in {"NodeStageVolume", "NodePublishVolume"} :
                 Returns("t1", op)
                 => /\ (IF op = "NodeStageVolume" THEN StageOut("t1", "none")
                        ELSE PublishOut("t1", "none")).resp.code = "OK"
                    /\ resp'["t1"].code = "OK" => LifecycleLeaves(op)'
          /\ \A op \in {"NodeUnpublishVolume", "NodeUnstageVolume"} :
                 Returns("t1", op)
                 => /\ CleanupOut(req["t1"], pathType, mounts, "none").resp.code = "OK"
                    /\ resp'["t1"].code = "OK" => LifecycleLeaves(op)']_vars
    /\ []((NoCallInFlight /\ LifecycleDone \in 2..6)
              => LifecycleAttached = {AttachedDisk(DiskName, "READ_WRITE")})

\* The last call of the sequence has returned OK: the disk is gone, nothing
\* is attached or mounted.
C32_Witness ==
    /\ NoCallInFlight /\ LifecycleDone = Len(LifecycleOps)
    /\ Returned("c1", "DeleteVolume") /\ cresp["c1"].code = "OK"
    /\ resp["t1"] = ReplyOf("NodeUnstageVolume", Reply("OK", 0, TRUE))
    /\ ~LifecycleDisk.exists /\ LifecycleAttached = {}
    /\ \A p \in Paths : ~mounts[p].mounted

\* Zones and names of up to MaxIdLen letters, none of them the separator.
MaxIdLen == 2
IdLetters == {"z", "d"}
IdParts == UNION {[1..n -> IdLetters] : n \in 1..MaxIdLen}

\* The disk a volume ID addresses.
Addressed(id) == <<SplitZoneNameId(id).zone, SplitZoneNameId(id).name>>

\* C33: decoding the encoding of a non-empty zone and a non-empty name
\* without separator gives that zone and name.  The volume ID CreateVolume
\* returns decodes to the zone and the name of the disk it made or found,
\* which is there; DeleteVolume and ControllerPublishVolume called with that
\* ID look up, delete and attach the disk of that zone and name and no other.
C33_IdentifierRoundTrip ==
    /\ \A zone, name \in IdParts :
           SplitZoneNameId(CombineVolumeId(zone, name))
              = [ok |-> TRUE, zone |-> zone, name |-> name]
    /\ [][\A t \in CtrlTasks :
             /\ (cpc[t] # "idle" /\ cpc'[t] = "idle" /\ Called(t, "CreateVolume")
                   /\ cresp'[t].code = "OK")
                => LET id == SplitZoneNameId(cresp'[t].volumeID) IN
                   /\ id.ok /\ id.zone = clocal[t].zone /\ id.name = creq[t].name
                   /\ DiskAt(disks', id.zone, id.name).exists
                   /\ cresp'[t].volumeID \in {r.volumeID : r \in LifecycleRequests}
             /\ (Enters(t) /\ creq'[t].op \in {"DeleteVolume", "ControllerPublishVolume"}
                   /\ cpc'[t] # "idle")
                => <<clocal'[t].zone, clocal'[t].name>> = Addressed(creq'[t].volumeID)
             /\ (Called(t, "DeleteVolume") /\ disks' # disks)
                => /\ \A k \in DiskKeys : disks'[k] # disks[k] => k = Addressed(creq[t].volumeID)
                   /\ ~DiskAt(disks', clocal[t].zone, clocal[t].name).exists
             /\ (Called(t, "ControllerPublishVolume") /\ attached' # attached)
                => \A i \in Instances :
                       /\ attached'[i] # attached[i] => i[1] = Addressed(creq[t].volumeID)[1]
                       /\ \A d \in attached'[i] \ attached[i] :
                              d.deviceName = Addressed(creq[t].volumeID)[2]]_vars

\* The disk CreateVolume made is attached by a ControllerPublishVolume called
\* with the volume ID of that disk.
C33_Witness ==
    /\ Returned("c1", "ControllerPublishVolume") /\ cresp["c1"].code = "OK"
    /\ Addressed(creq["c1"].volumeID) = <<DriverZone, DiskName>>
    /\ DiskAt(disks, DriverZone, DiskName).exists
    /\ hist["c1"].issued = 1
    /\ \E d \in attached[<<DriverZone, "n1">>] : d.deviceName = DiskName

\* s starts with the letters of prefix.
StartsWith(s, prefix) ==
    \A i \in 1..Len(prefix) : i <= Len(s) /\ s[i] = prefix[i]

\* The attach limit of a machine type: 127 for one that starts with 'n1-' or
\* 'custom-', 15 for any other.
AttachLimit(machineType) ==
    IF StartsWith(machineType, <<"n", "1", "-">>)
          \/ StartsWith(machineType, <<"c", "u", "s", "t", "o", "m", "-">>)
    THEN 127 ELSE 15

\* t is answered by NodeGetInfo in this step.
InfoReturned(t) == resp'[t] # resp[t] /\ resp'[t].op = "NodeGetInfo"

\* C34: NodeGetInfo answers OK with the attach limit 127 exactly when the
\* machine type of the node starts with 'n1-' or 'custom-' and with 15 for
\* every other machine type, and with one accessible-topology segment, the
\* zone of the node under the zone key; it changes nothing on the node.
C34_NodeInfo ==
    /\ \A m \in MachineTypes :
           /\ GetVolumeLimits(m) = AttachLimit(m)
           /\ GetVolumeLimits(m) \in {volumeLimitSmall, volumeLimitBig}
    /\ volumeLimitBig = 127 /\ volumeLimitSmall = 15
    /\ [][\A t \in Tasks :
             InfoReturned(t)
             => /\ resp'[t].code = "OK"
                /\ resp'[t].maxVolumesPerNode = AttachLimit(nodePool.machineType)
                /\ resp'[t].accessibleTopology = {<<TopologyKeyZone, nodePool.zone>>}
                /\ UNCHANGED <<volumeLocks, pc, req, pathType, mounts>>]_vars

\* A custom machine in the other zone has reported 127 and that zone, with a
\* volume staged on it; or an f1 machine has reported 15.
C34_Witness ==
    \E t \in Tasks :
        /\ resp[t].op = "NodeGetInfo" /\ resp[t].code = "OK"
        /\ \/ /\ nodePool.machineType = <<"c", "u", "s", "t", "o", "m", "-", "2">>
              /\ nodePool.zone = OtherZone
              /\ resp[t].maxVolumesPerNode = 127
              /\ resp[t].accessibleTopology = {<<"topology.gke.io/zone", OtherZone>>}
              /\ mounts[StagingOf(GoodID)].mounted
           \/ /\ nodePool.machineType = <<"f", "1", "-", "m">>
              /\ resp[t].maxVolumesPerNode = 15

(***************************************************************************)
(* Attachments: the disk of the project and two instances of its zone,     *)
(* callers publishing and unpublishing the disk.                           *)
(***************************************************************************)
TwoInstances == {<<DriverZone, "n1">>, <<DriverZone, "n2">>}

InitAttach ==
    /\ InitNode("none")
    /\ snapshots = [n \in SnapshotNames |-> NoSnapshot]
    /\ disks = [k \in DiskKeys |->
                   IF k = <<DriverZone, DiskName>>
                   THEN Disk(MinimumDiskSizeInGb, DiskTypeStandard) ELSE NoDisk]
    /\ attached = [i \in TwoInstances |-> {}]
    /\ cpc = [t \in CtrlTasks |-> "idle"]
    /\ creq = [t \in CtrlTasks |-> NoCtrlReq]
    /\ cresp = [t \in CtrlTasks |-> NoCtrlResp]
    /\ clocal = [t \in CtrlTasks |-> NoLocal]
    /\ hist = [t \in CtrlTasks |-> NoHist]
    /\ pool = Callers("attach", NoRange)
NextAttach ==
    \/ NextPublishVolume /\ UNCHANGED <<nodeVars, mounterVars>>
    \/ NextUnpublishVolume /\ UNCHANGED <<nodeVars, mounterVars>>
SpecAttach == InitAttach /\ [][NextAttach]_vars

\* The instances the disk of this name and zone is attached to.
AttachedTo(zone, name) ==
    {i \in DOMAIN attached : i[1] = zone /\ diskIsAttached(name, attached[i])}

\* C35: after any sequence of ControllerPublishVolume and
\* ControllerUnpublishVolume calls, each disk is attached to at most one
\* instance.
C35_SingleAttachment ==
    \A k \in DiskKeys : Cardinality(AttachedTo(k[1], k[2])) <= 1

(***************************************************************************)
(* The mutating cloud requests of a controller call: two callers sending   *)
(* the create, publish, unpublish and delete of one disk in any order.     *)
(***************************************************************************)
InitCore == InitNode("none") /\ InitController(Callers("lifecycle", NoRange))
NextCore ==
    \/ NextCreateVolume /\ UNCHANGED <<nodeVars, mounterVars>>
    \/ NextDeleteVolume /\ UNCHANGED <<nodeVars, mounterVars>>
    \/ NextPublishVolume /\ UNCHANGED <<nodeVars, mounterVars>>
    \/ NextUnpublishVolume /\ UNCHANGED <<nodeVars, mounterVars>>
SpecCore == InitCore /\ [][NextCore]_vars

\* Where a handler sends its insert, delete, attach or detach, and where it
\* waits for the operation that request started.
MutatingLabels == {"cv_insert", "dv_delete", "cp_attach", "cu_detach"}
WaitOf(label) ==
    CASE label = "cv_insert" -> "cv_wait"
      [] label = "dv_delete" -> "dv_wait"
      [] label = "cp_attach" -> "cp_wait"
      [] label = "cu_detach" -> "cu_wait"
      [] OTHER -> "idle"
WaitLabels == {WaitOf(l) : l \in MutatingLabels} \cup {"cp_waitattach"}

\* This step of t is its mutating request.
Mutates(t) == cpc[t] \in MutatingLabels /\ cpc'[t] # cpc[t]
\* This step of t is its mutating request, or a wait for it, ending in an
\* error: the request was refused, the cloud failed the call, or the insert
\* found the disk there by now.
MutationFails(t) ==
    \/ Mutates(t) /\ cpc'[t] # WaitOf(cpc[t])
    \/ cpc[t] \in WaitLabels /\ cpc'[t] # cpc[t] /\ hist'[t].faulted
    \/ cpc[t] = "cv_wait" /\ cpc'[t] # cpc[t] /\ disks' = disks
\* t returns an error with this step.
ReturnsError(t) == cpc'[t] = "idle" /\ cresp'[t].code \notin {"OK", "none"}

\* At most one mutating request in a call, none after an error of it.
OneMutation(t) ==
    /\ hist'[t].issued <= 1
    /\ hist'[t].issued > hist[t].issued <=> Mutates(t)
    /\ MutationFails(t) =>
           \/ cpc'[t] = "idle"
           \/ cpc'[t] = "cv_reget" /\ hist'[t].issued = 1
    /\ (cpc[t] = "cv_reget" /\ cpc'[t] # cpc[t]) =>
           cpc'[t] = "idle" /\ hist'[t].issued = 1

\* C36 as stated: within one CreateVolume, DeleteVolume,
\* ControllerPublishVolume or ControllerUnpublishVolume call at most one
\* mutating cloud request is issued, it is not issued again after an error,
\* and the error is returned to the caller.
C36_ErrorReturned ==
    [][\A t \in CtrlTasks :
           /\ OneMutation(t)
           /\ MutationFails(t) => ReturnsError(t)]_vars

\* C36: at most one mutating cloud request is issued within one call and it
\* is not issued again after an error.  An error is returned to the caller
\* as Internal, but for three answers of the cloud: "already exists" to the
\* insert or to the wait for it, after which the call checks the disk once
\* more and returns what the check gives; "not found" to the delete, which
\* returns success; "in use" to the delete, which returns FailedPrecondition.
C36_NoRetry ==
    [][\A t \in CtrlTasks :
           LET l == clocal[t]
               there == DiskAt(disks, l.zone, l.name).exists
           IN /\ OneMutation(t)
              /\ (MutationFails(t) /\ hist'[t].faulted)
                 => cpc'[t] = "idle" /\ cresp'[t].code = "Internal"
              /\ (MutationFails(t) /\ ~hist'[t].faulted)
                 => \/ /\ cpc[t] \in {"cv_insert", "cv_wait"}
                       /\ there /\ cpc'[t] = "cv_reget"
                    \/ /\ cpc[t] = "dv_delete" /\ ~there
                       /\ cpc'[t] = "idle" /\ cresp'[t].code = "OK"
                    \/ /\ cpc[t] = "dv_delete" /\ there
                       /\ InUse(attached, l.zone, l.name)
                       /\ cpc'[t] = "idle" /\ cresp'[t].code = "FailedPrecondition"]_vars

\* One caller's request has failed and the error is back with it, while the
\* other's insert has found the disk there and the call checks it again.
C36_Witness ==
    \E t, u \in CtrlTasks :
        /\ AtIdle(t) /\ hist[t].issued = 1 /\ hist[t].faulted
        /\ cresp[t].code = "Internal"
        /\ cpc[u] = "cv_reget" /\ hist[u].issued = 1

(***************************************************************************)
(* Requests with a required field missing.                                 *)
(***************************************************************************)
\* The fields each handler requires.
RequiredFields(op) ==
    CASE op = "NodeStageVolume" -> {"volumeID", "stagingTargetPath", "volumeCapability"}
      [] op = "NodeUnstageVolume" -> {"volumeID", "stagingTargetPath"}
      [] op = "NodePublishVolume" ->
             {"volumeID", "stagingTargetPath", "targetPath", "volumeCapability"}
      [] op = "NodeUnpublishVolume" -> {"volumeID", "targetPath"}
      [] OTHER -> {}
MissingField(r) == \E fl \in RequiredFields(r.op) : r = WithoutField(r, fl)

\* The field checks of the handler the request is for.
ValidFor(r) ==
    CASE r.op = "NodeStageVolume" -> StageValid(r)
      [] r.op = "NodeUnstageVolume" -> UnstageValid(r)
      [] r.op = "NodePublishVolume" -> PublishValid(r)
      [] r.op = "NodeUnpublishVolume" -> UnpublishValid(r)
      [] OTHER -> TRUE
\* How the handler would answer the request at its entry now.
EntryOf(r) == EntryCode(ValidFor(r), TryAcquire(volumeLocks, LockKey(r)).acquired)

\* t is answered at the entry of a handler, without being let in.
TurnedAway(t) == pc[t] = "idle" /\ pc'[t] = "idle" /\ resp'[t] # resp[t]

\* C37: in every state, a request of NodeStageVolume, NodeUnstageVolume,
\* NodePublishVolume or NodeUnpublishVolume with a required field missing
\* would be answered InvalidArgument, never Aborted, whoever holds the lock
\* of its volume ID; a request with all of them is not answered so at the
\* entry; and a step that answers InvalidArgument at the entry takes no
\* lock, makes no mount executor call, leaves paths and mount table as they
\* are and leaves every other task where it is.
C37_InvalidBeforeLock ==
    /\ [](\A r \in NodeCallers(nodePool) :
              r.op \in LockingOps =>
                  (MissingField(r) <=> EntryOf(r) = "InvalidArgument"))
    /\ [][\A t \in Tasks :
              (/\ TurnedAway(t) /\ resp'[t].code = "InvalidArgument"
               /\ resp'[t].op \in LockingOps) =>
                  /\ ~resp'[t].mountCalls
                  /\ volumeLocks' = volumeLocks
                  /\ pathType' = pathType /\ mounts' = mounts
                  /\ \A u \in Tasks \ {t} :
                         pc'[u] = pc[u] /\ req'[u] = req[u] /\ resp'[u] = resp[u]]_vars

\* A task is inside a handler for the volume, and a request for the same
\* volume with a field missing has been answered InvalidArgument.
C37_Witness ==
    \E t, u \in Tasks :
        /\ u \in Holders(GoodID)
        /\ pc[t] = "idle" /\ resp[t].code = "InvalidArgument"
        /\ resp[t].op = "NodeUnstageVolume"
        /\ \E r \in NodeCallers(nodePool) :
               /\ r.op = resp[t].op /\ MissingField(r) /\ LockKey(r) = GoodID
               /\ ~TryAcquire(volumeLocks, LockKey(r)).acquired

(***************************************************************************)
(* NodePublishVolume and the staging path.                                 *)
(***************************************************************************)
\* The paths and the mount table with the staging path of r in state s.
StagingAs(r, s) ==
    [pathType |-> [pathType EXCEPT ![r.stagingTargetPath] = s.type],
     mounts |-> [mounts EXCEPT ![r.stagingTargetPath] = s.mount]]

\* C38: a NodePublishVolume in mount mode that returns has done what it
\* would have done with the staging path in any other state (absent, or
\* staged with any capability): same reply and same target, the staging path
\* left as found.  With the target no mount point and every executor call
\* succeeding it returns OK with the target a bind mount of the staging
\* path.  The node service holds nothing of a call that has returned: a task
\* outside a handler has no request, and no lock is held without a task in a
\* handler.
C38_PublishIgnoresStaging ==
    /\ [](/\ \A t \in Tasks : pc[t] = "idle" => req[t] = NoReq
          /\ (\A t \in Tasks : pc[t] = "idle") => volumeLocks = {})
    /\ [][\A t \in Tasks :
             (Returns(t, "NodePublishVolume") /\ req[t].volumeCapability.kind = "mount")
             => LET r == req[t]
                    cap == r.volumeCapability
                    staging == r.stagingTargetPath
                    target == r.targetPath
                    fstype == IF cap.fsType # "" THEN cap.fsType ELSE "ext4"
                IN
                /\ \E f \in PublishFaults \cup MountFaults : Leaves(t, PublishOut(t, f))
                /\ \A f \in PublishFaults \cup MountFaults, s \in StagingStates :
                       LET o == PublishOut(t, f)
                           w == StagingAs(r, s)
                           o2 == NodePublishVolumeBody(r, w.pathType, w.mounts, f)
                       IN /\ o2.resp = o.resp
                          /\ o2.mounts[target] = o.mounts[target]
                          /\ o2.pathType[target] = o.pathType[target]
                          /\ o2.mounts[staging] = s.mount
                          /\ o2.pathType[staging] = s.type
                /\ (~mounts[target].mounted /\ pathType[target] \in {"absent", "dir"})
                   => /\ PublishOut(t, "none").resp.code = "OK"
                      /\ PublishOut(t, "none").mounts[target]
                            = MountOf(staging, fstype, BindOptions(r, cap.mountFlags))]_vars

\* A publish in mount mode has returned OK and the target is a bind mount of
\* the staging path, which no NodeStageVolume has mounted or made.
C38_Witness ==
    \E t \in Tasks :
        /\ pc[t] = "idle" /\ resp[t] = ReplyOf("NodePublishVolume", Reply("OK", 0, TRUE))
        /\ nodePool.request.volumeCapability.kind = "mount"
        /\ ~nodePool.target.mount.mounted
        /\ nodePool.staging = AbsentPath
        /\ pathType[StagingOf(GoodID)] = "absent"
        /\ ~mounts[StagingOf(GoodID)].mounted
        /\ mounts[TargetOf(GoodID)].mounted
        /\ mounts[TargetOf(GoodID)].source = StagingOf(GoodID)

(***************************************************************************)
(* CSIProxyMounter.FormatAndMount: one caller, the CSI proxy at its        *)
(* boundary.  Each proxy call succeeds or returns an error.                *)
(***************************************************************************)
MaxFormatAndMount == 2

VolumeIds == {"v1", "v2"}
\* The volume lists a disk can have: none, one, or two in either order.
VolumeLists ==
    {<<>>} \cup {<<v>> : v \in VolumeIds}
    \cup {<<x[1], x[2]>> : x \in {y \in VolumeIds \X VolumeIds : y[1] # y[2]}}
ProxyDisk == "1"
ProxyTarget == "/staging/z_d"

ProxyOf(volumes, formatted) ==
    [pc |-> "idle", volumes |-> volumes, formatted |-> formatted, mounted |-> {},
     source |-> "", target |-> "", volumeID |-> "", reported |-> FALSE,
     calls |-> <<>>, result |-> "none", count |-> 0]

\* A proxy call is made: it is logged with whether it succeeded.
Logged(call, ok) == Append(proxy.calls, [call |-> call, ok |-> ok])

\* "if err != nil { return err }"
ReturnErr(call) ==
    proxy' = [proxy EXCEPT !.pc = "idle", !.result = "error",
                           !.calls = Logged(call, FALSE)]

FormatAndMount ==
    /\ proxy.pc = "idle"
    /\ proxy.count < MaxFormatAndMount
    /\ proxy' = [proxy EXCEPT !.pc = "partition", !.source = ProxyDisk,
                              !.target = ProxyTarget, !.volumeID = "",
                              !.reported = FALSE, !.calls = <<>>,
                              !.result = "none", !.count = @ + 1]

\* DiskClient.PartitionDisk: a disk without a volume may have one after it.
PartitionDisk ==
    /\ proxy.pc = "partition"
    /\ \/ ReturnErr("PartitionDisk")
       \/ \E vs \in {proxy.volumes} \cup
                    (IF proxy.volumes = <<>> THEN {<<"v1">>} ELSE {}) :
              proxy' = [proxy EXCEPT !.pc = "list", !.volumes = vs,
                                     !.calls = Logged("PartitionDisk", TRUE)]

\* VolumeClient.ListVolumesOnDisk and "volumeID := VolumeIds[0]", which
\* panics on an empty list.
ListVolumesOnDisk ==
    /\ proxy.pc = "list"
    /\ \/ ReturnErr("ListVolumesOnDisk")
       \/ /\ proxy.volumes = <<>>
          /\ proxy' = [proxy EXCEPT !.pc = "idle", !.result = "panic",
                                    !.calls = Logged("ListVolumesOnDisk", TRUE)]
       \/ /\ proxy.volumes # <<>>
          /\ proxy' = [proxy EXCEPT !.pc = "isFormatted",
                                    !.volumeID = proxy.volumes[1],
                                    !.calls = Logged("ListVolumesOnDisk", TRUE)]

\* A call that formats whatever the proxy reports.
IsVolumeFormattedIgnored ==
    /\ proxy.pc = "isFormatted"
    /\ \/ ReturnErr("IsVolumeFormatted")
       \/ proxy' = [proxy EXCEPT !.pc = "format",
                                 !.reported = proxy.volumeID \in proxy.formatted,
                                 !.calls = Logged("IsVolumeFormatted", TRUE)]

\* VolumeClient.IsVolumeFormatted and "if !isVolumeFormattedResponse.Formatted".
IsVolumeFormatted ==
    /\ proxy.pc = "isFormatted"
    /\ \/ ReturnErr("IsVolumeFormatted")
       \/ LET formatted == proxy.volumeID \in proxy.formatted IN
          proxy' = [proxy EXCEPT !.pc = IF ~formatted THEN "format" ELSE "mount",
                                 !.reported = formatted,
                                 !.calls = Logged("IsVolumeFormatted", TRUE)]

FormatVolume ==
    /\ proxy.pc = "format"
    /\ \/ ReturnErr("FormatVolume")
       \/ proxy' = [proxy EXCEPT !.pc = "mount",
                                 !.formatted = @ \cup {proxy.volumeID},
                                 !.calls = Logged("FormatVolume", TRUE)]

MountVolume ==
    /\ proxy.pc = "mount"
    /\ \/ ReturnErr("MountVolume")
       \/ proxy' = [proxy EXCEPT !.pc = "idle", !.result = "nil",
                                 !.mounted = @ \cup {<<proxy.volumeID, proxy.target>>},
                                 !.calls = Logged("MountVolume", TRUE)]

\* The node and the controller with no caller.
NoService ==
    /\ InitNodeState(NodeCallersOf("none", NoReq),
                     [p \in Paths |-> "absent"], [p \in Paths |-> NoMount])
    /\ InitController(NoCallers)

\* The disk has any of the volume lists, any of its volumes formatted.
InitProxy ==
    /\ NoService
    /\ blocking = NoBlocking
    /\ \E vs \in VolumeLists :
       \E fs \in SUBSET {vs[i] : i \in 1..Len(vs)} :
           proxy = ProxyOf(vs, fs)
NextProxy ==
    \/ FormatAndMount /\ UNCHANGED <<nodeVars, ctrlVars, blocking>>
    \/ PartitionDisk /\ UNCHANGED <<nodeVars, ctrlVars, blocking>>
    \/ ListVolumesOnDisk /\ UNCHANGED <<nodeVars, ctrlVars, blocking>>
    \/ IsVolumeFormatted /\ UNCHANGED <<nodeVars, ctrlVars, blocking>>
    \/ FormatVolume /\ UNCHANGED <<nodeVars, ctrlVars, blocking>>
    \/ MountVolume /\ UNCHANGED <<nodeVars, ctrlVars, blocking>>
SpecProxy == InitProxy /\ [][NextProxy]_vars

\* The proxy calls of FormatAndMount in the order of the claim, and the
\* same without the format.
ProxySteps ==
    <<"PartitionDisk", "ListVolumesOnDisk", "IsVolumeFormatted", "FormatVolume",
      "MountVolume">>
ProxyStepsFormatted ==
    <<"PartitionDisk", "ListVolumesOnDisk", "IsVolumeFormatted", "MountVolume">>
\* The names of the proxy calls the current FormatAndMount has made.
CallNames == [i \in 1..Len(proxy.calls) |-> proxy.calls[i].call]
HasCalled(call) == \E i \in 1..Len(proxy.calls) : proxy.calls[i].call = call

\* C39: the proxy calls of a FormatAndMount are a beginning of the sequence
\* partition disk, list volumes on disk, query formatted, format, mount, the
\* format left out exactly when the volume was reported formatted; a format
\* request is made only for a volume that is not formatted; a call that
\* fails is the last of its FormatAndMount, which returns the error; the
\* mount request is made only after every earlier call succeeded, and nil is
\* returned only after the mount succeeded.
C39_FormatAndMountOrder ==
    /\ [](LET n == Len(proxy.calls) IN
          /\ \/ CallNames = SubSeq(ProxySteps, 1, n)
             \/ CallNames = SubSeq(ProxyStepsFormatted, 1, n)
          /\ HasCalled("FormatVolume") => ~proxy.reported
          /\ (HasCalled("MountVolume") /\ ~HasCalled("FormatVolume")) => proxy.reported
          /\ \A i \in 1..n :
                 ~proxy.calls[i].ok => (i = n /\ proxy.pc = "idle" /\ proxy.result = "error")
          /\ proxy.result = "error" => (n > 0 /\ ~proxy.calls[n].ok)
          /\ proxy.result = "nil"
             => (n > 0 /\ proxy.calls[n] = [call |-> "MountVolume", ok |-> TRUE]))
    /\ [][/\ (Len(proxy'.calls) > Len(proxy.calls)
              /\ proxy'.calls[Len(proxy'.calls)].call = "FormatVolume")
             => (proxy.volumeID \notin proxy.formatted /\ proxy.pc = "format")
          /\ proxy'.formatted # proxy.formatted
             => (/\ proxy.volumeID \notin proxy.formatted
                 /\ proxy'.formatted = proxy.formatted \cup {proxy.volumeID})
          /\ proxy.pc = "idle"
             => (proxy'.calls = <<>> \/ proxy'.calls = proxy.calls)]_vars

\* The second FormatAndMount of a volume has returned nil after four proxy
\* calls, none of them a format: the volume was formatted and is mounted.
C39_Witness ==
    /\ proxy.pc = "idle" /\ proxy.count = 2 /\ proxy.result = "nil"
    /\ CallNames = ProxyStepsFormatted
    /\ proxy.volumeID \in proxy.formatted
    /\ <<proxy.volumeID, proxy.target>> \in proxy.mounted

(***************************************************************************)
(* FakeBlockingMounter: Mount calls blocked on the two channels the test   *)
(* gave to NewFakeSafeBlockingMounter.  A channel of capacity 0 passes a   *)
(* value only from a sender to a receiver that is waiting; one with a      *)
(* buffer takes values while the buffer has room.                          *)
(***************************************************************************)
MaxCapacity == 2
MaxTokens == 3

MountCallers == {"m1", "m2"}
MountSourceAndTarget(source, target) == [Source |-> source, Target |-> target]
Tokens ==
    {MountSourceAndTarget("/dev/a", "/target/a"),
     MountSourceAndTarget("/dev/b", "/target/b")}
NoToken == MountSourceAndTarget("", "")

\* NewFakeSafeBlockingMounter(mountToRun, readyToMount), and Mount called by
\* each caller with its source and target.
BlockingOf(runCap, readyCap, args) ==
    [pc |-> "blocking", runCap |-> runCap, readyCap |-> readyCap,
     mountToRun |-> <<>>, readyToMount |-> 0,
     at |-> [m \in MountCallers |-> "ready"], args |-> args,
     held |-> [m \in MountCallers |-> NoToken],
     signals |-> [m \in MountCallers |-> 0],
     sent |-> <<>>, seen |-> 0, putBack |-> FALSE, executed |-> <<>>]

\* Caller m, waiting in the range loop, receives x:
\* "if mountToRun.Source == source && mountToRun.Target == target { break }".
Receives(b, m, x) ==
    IF x.Source = b.args[m].Source /\ x.Target = b.args[m].Target
    THEN [b EXCEPT !.at[m] = "mount"]
    ELSE [b EXCEPT !.at[m] = "putback", !.held[m] = x]

\* A send of x on mountToRun: into the buffer, or to a caller waiting to
\* receive (one of waiting) when there is no buffer.  The set of states it
\* can lead to.
SendToRun(b, x, waiting) ==
    IF b.runCap > 0
    THEN IF Len(b.mountToRun) < b.runCap
         THEN {[b EXCEPT !.mountToRun = Append(@, x)]} ELSE {}
    ELSE {Receives(b, m, x) : m \in waiting}

\* The callers waiting to receive from mountToRun.
Waiting == {m \in MountCallers : blocking.at[m] = "receive"}

\* "mounter.readyToMount <- struct{}{}"
MountReady(m) ==
    /\ blocking.at[m] = "ready"
    /\ \/ /\ blocking.readyCap > 0 /\ blocking.readyToMount < blocking.readyCap
          /\ blocking' = [blocking EXCEPT !.at[m] = "receive", !.signals[m] = @ + 1,
                                          !.readyToMount = @ + 1]
       \/ /\ blocking.readyCap = 0
          /\ blocking' = [blocking EXCEPT !.at[m] = "receive", !.signals[m] = @ + 1,
                                          !.seen = @ + 1]

\* A loop that does not put back a token that is not its own.
MountLoopDropping(m) ==
    \/ /\ blocking.at[m] = "receive"
       /\ blocking.runCap > 0 /\ blocking.mountToRun # <<>>
       /\ blocking' = Receives([blocking EXCEPT !.mountToRun = Tail(@)], m,
                               Head(blocking.mountToRun))
    \/ /\ blocking.at[m] = "putback"
       /\ blocking' = [blocking EXCEPT !.at[m] = "receive", !.held[m] = NoToken]

\* "for mountToRun := range mounter.mountToRun": the caller receives from
\* the buffer (a value sent without a buffer reaches it in the sender's
\* step), breaks on its own source and target, and otherwise sends the value
\* back, "mounter.mountToRun <- mountToRun", before it receives again.
MountLoop(m) ==
    \/ /\ blocking.at[m] = "receive"
       /\ blocking.runCap > 0 /\ blocking.mountToRun # <<>>
       /\ blocking' = Receives([blocking EXCEPT !.mountToRun = Tail(@)], m,
                               Head(blocking.mountToRun))
    \/ /\ blocking.at[m] = "putback"
       /\ blocking' \in SendToRun([blocking EXCEPT !.at[m] = "receive",
                                                   !.held[m] = NoToken,
                                                   !.putBack = TRUE],
                                  blocking.held[m], Waiting)

\* "return mounter.FakeMounter.Mount(source, target, fstype, options)"
MountRun(m) ==
    /\ blocking.at[m] = "mount"
    /\ blocking' = [blocking EXCEPT !.at[m] = "done", !.executed = Append(@, m)]

\* The test lets a mount run: it sends a source and target on mountToRun.
TestSends(x) ==
    /\ Len(blocking.sent) < MaxTokens
    /\ blocking' \in SendToRun([blocking EXCEPT !.sent = Append(@, x)], x, Waiting)

\* The test takes a signal from a buffered readyToMount.
TestSees ==
    /\ blocking.readyToMount > 0
    /\ blocking' = [blocking EXCEPT !.readyToMount = @ - 1, !.seen = @ + 1]

InitBlocking ==
    /\ NoService
    /\ proxy = NoProxy
    /\ \E runCap, readyCap \in 0..MaxCapacity, args \in [MountCallers -> Tokens] :
           blocking = BlockingOf(runCap, readyCap, args)
NextBlocking ==
    \/ (\E m \in MountCallers : MountReady(m)) /\ UNCHANGED <<nodeVars, ctrlVars, proxy>>
    \/ (\E m \in MountCallers : MountLoop(m)) /\ UNCHANGED <<nodeVars, ctrlVars, proxy>>
    \/ (\E m \in MountCallers : MountRun(m)) /\ UNCHANGED <<nodeVars, ctrlVars, proxy>>
    \/ (\E x \in Tokens : TestSends(x)) /\ UNCHANGED <<nodeVars, ctrlVars, proxy>>
    \/ TestSees /\ UNCHANGED <<nodeVars, ctrlVars, proxy>>
SpecBlocking == InitBlocking /\ [][NextBlocking]_vars

\* How often x is in a sequence.
Count(seq, x) == Cardinality({i \in 1..Len(seq) : seq[i] = x})
\* The callers that have received their own source and target.
LetThrough(x) == {m \in MountCallers : blocking.at[m] \in {"mount", "done"} /\ blocking.args[m] = x}
Holding(x) == {m \in MountCallers : blocking.held[m] = x}
Signalled == {m \in MountCallers : blocking.signals[m] = 1}

\* C40: a Mount call has signalled readyToMount once when it is past its
\* first statement and not before, and every signal is in the channel or
\* with the test; a caller is at or past the underlying mount only when it
\* has received its own source and target, and the mounts executed are of
\* such callers, each once; every source and target the test has sent is in
\* mountToRun, with a caller that is putting it back because it is not its
\* own, or has let one caller of that source and target through, so that no
\* more mounts of a source and target run than the test has sent for it.
C40_BlockingMount ==
    /\ \A m \in MountCallers :
           /\ blocking.signals[m] = (IF blocking.at[m] = "ready" THEN 0 ELSE 1)
           /\ blocking.held[m] # NoToken
              <=> (blocking.at[m] = "putback" /\ blocking.held[m] # blocking.args[m])
    /\ blocking.readyToMount + blocking.seen = Cardinality(Signalled)
    /\ \A x \in Tokens :
           Count(blocking.sent, x)
               = Count(blocking.mountToRun, x) + Cardinality(Holding(x))
                 + Cardinality(LetThrough(x))
    /\ \A i, j \in 1..Len(blocking.executed) :
           /\ blocking.at[blocking.executed[i]] = "done"
           /\ blocking.executed[i] = blocking.executed[j] => i = j
    /\ \A m \in MountCallers :
           blocking.at[m] = "done" => Count(blocking.executed, m) = 1

\* Two Mount calls with different targets have signalled; the test has sent
\* the source and target of m2 alone; it was put back by the caller it was
\* not for, m2 has mounted, and m1 is still waiting.
C40_Witness ==
    /\ blocking.pc = "blocking"
    /\ blocking.args["m1"] # blocking.args["m2"]
    /\ blocking.sent = <<blocking.args["m2"]>>
    /\ blocking.putBack
    /\ blocking.executed = <<"m2">>
    /\ blocking.at["m1"] = "receive"
    /\ Signalled = MountCallers

====
